---- MODULE Spec2Model ----
(***************************************************************************)
(* AIHelpdesk: the knowledge-base selector (backend/kb_search.py) and the  *)
(* guided-flow state machine (backend/flow_engine.py).                     *)
(*                                                                         *)
(* Text is modelled character by character: a Python str is the sequence   *)
(* of its one-character strings, so lower(), strip(), split(), the `in`    *)
(* substring test and the \b word-boundary regex are computed, not assumed.*)
(***************************************************************************)
EXTENDS Integers, Sequences, FiniteSets, TLC

VARIABLES
    \* --- select_best_article: the arguments of the call and its result ---
    articles,             \* list of knowledge-base keys (the candidate list)
    kw_source,            \* the text the caller extracted the keywords from
    original_query,       \* the original_query argument ("" when not given)
    exclude_article_ids,  \* the exclusion list, as a set of article ids
    selection,            \* the returned (article, score, debug), or Pending
    first_call,           \* the arguments and the result of the first call made
    \* --- flow_advance: one conversation ---
    flow_config,          \* which flow / platform_steps / title is in use
    current_step_id,      \* the caller's position in the flow
    context,              \* the ConversationContext
    user_message,         \* the utterance of the last call
    call_input,           \* [step_id, context] handed to the last call
    result,               \* what the last call returned
    \* --- normalize_article_to_flow: an article, normalized and normalized again ---
    article_doc,          \* the caller's article, the dict the call is handed
    normal_input,         \* the article as it was when the call was made
    normal_result,        \* what normalize_article_to_flow(article) returned
    renormal_result,      \* what normalize_article_to_flow of that result returned
    \* --- the phrase predicates: one utterance (user_message) and its verdicts ---
    verdicts,             \* the predicates applied to the utterance, each with its answer
    \* --- routes/tickets.py: one ticket document and the requests on it ---
    ticket,               \* the stored ticket document, NoTicket before create_ticket
    requests              \* the add_message_to_ticket requests under way

vars == << articles, kw_source, original_query, exclude_article_ids, selection, first_call,
           flow_config, current_step_id, context, user_message, call_input, result,
           article_doc, normal_input, normal_result, renormal_result,
           verdicts, ticket, requests >>

selectVars ==
    << articles, kw_source, original_query, exclude_article_ids, selection, first_call >>
flowVars == << flow_config, current_step_id, context, user_message, call_input, result >>
normalizeVars == << article_doc, normal_input, normal_result, renormal_result >>
ticketVars == << verdicts, ticket, requests >>

-----------------------------------------------------------------------------
(* Python str operations *)

\* the element of a one-element set: { F(v) : v \in {e} } computes e once
The(S) == CHOOSE x \in S : TRUE

Chars(s) == The({ [i \in 1..Len(v) |-> SubSeq(v, i, i)] : v \in {s} })

Range(f) == { f[i] : i \in DOMAIN f }

UpperCase == <<"A","B","C","D","E","F","G","H","I","J","K","L","M",
               "N","O","P","Q","R","S","T","U","V","W","X","Y","Z">>
LowerCase == <<"a","b","c","d","e","f","g","h","i","j","k","l","m",
               "n","o","p","q","r","s","t","u","v","w","x","y","z">>
DigitChars == <<"0","1","2","3","4","5","6","7","8","9">>

UpperSet == Range(UpperCase)
LowerSet == Range(LowerCase)
DigitSet == Range(DigitChars)

IsDigitChar(c) == c \in DigitSet
IsSpaceChar(c) == c \in {" ", "\t", "\n", "\r"}
\* \w of the re module
IsWordChar(c) == c \in UpperSet \/ c \in LowerSet \/ c \in DigitSet \/ c = "_"

LowerChar(c) ==
    IF c \in UpperSet
    THEN LowerCase[CHOOSE i \in 1..26 : UpperCase[i] = c]
    ELSE c

\* str.lower()
lower(s) == The({ [i \in 1..Len(v) |-> LowerChar(v[i])] : v \in {s} })

\* str.strip()
strip(s) ==
    The({ IF \A i \in 1..Len(v) : IsSpaceChar(v[i]) THEN <<>>
          ELSE SubSeq(v,
                 CHOOSE i \in 1..Len(v) :
                     ~IsSpaceChar(v[i]) /\ \A j \in 1..(i - 1) : IsSpaceChar(v[j]),
                 CHOOSE i \in 1..Len(v) :
                     ~IsSpaceChar(v[i]) /\ \A j \in (i + 1)..Len(v) : IsSpaceChar(v[j]))
          : v \in {s} })

\* needle in hay
Contains(hay, needle) ==
    \E h \in {hay}, n \in {needle} :
        \E i \in 0..(Len(h) - Len(n)) : SubSeq(h, i + 1, i + Len(n)) = n

\* the character classes text is cut by: \S (split) and \w (re.findall)
InClass(c, class) == IF class = "word" THEN IsWordChar(c) ELSE ~IsSpaceChar(c)

\* the run of the class that starts at position i ends before the next character outside it
RunEnd(v, i, class) ==
    CHOOSE j \in i..Len(v) :
        /\ \A k \in i..j : InClass(v[k], class)
        /\ (j = Len(v) \/ ~InClass(v[j + 1], class))

\* the maximal runs of characters of the class, in order
Runs(s, class) ==
    The({ LET starts == { i \in 1..Len(v) :
                            InClass(v[i], class) /\ (i = 1 \/ ~InClass(v[i - 1], class)) }
          IN  [ k \in 1..Cardinality(starts) |->
                  The({ SubSeq(v, i, RunEnd(v, i, class))
                        : i \in { i \in starts :
                                    Cardinality({ j \in starts : j < i }) = k - 1 } }) ]
          : v \in {s} })

\* str.split()
split(s) == Runs(s, "nonspace")

RECURSIVE JoinFrom(_, _, _)
JoinFrom(parts, sep, i) ==
    IF i > Len(parts) THEN <<>>
    ELSE IF i = Len(parts) THEN parts[i]
    ELSE parts[i] \o sep \o JoinFrom(parts, sep, i + 1)

\* sep.join(parts)
join(sep, parts) == The({ JoinFrom(v, sep, 1) : v \in {parts} })

\* str.isdigit()
isdigit(s) == \E v \in {s} : v /= <<>> /\ \A i \in 1..Len(v) : IsDigitChar(v[i])

DigitValue(c) == (CHOOSE i \in 1..10 : DigitChars[i] = c) - 1

RECURSIVE DigitsValue(_, _)
\* int(s) of a string of n digits
DigitsValue(s, n) ==
    IF n = 0 THEN 0 ELSE 10 * DigitsValue(s, n - 1) + DigitValue(s[n])

RECURSIVE TextFrom(_, _)
TextFrom(v, i) == IF i > Len(v) THEN "" ELSE v[i] \o TextFrom(v, i + 1)

\* the str whose characters are the sequence s
Text(s) == The({ TextFrom(v, 1) : v \in {s} })

RECURSIVE str(_)
\* str(n) for n >= 0
str(n) == IF n < 10 THEN DigitChars[n + 1] ELSE str(n \div 10) \o DigitChars[(n % 10) + 1]

IsLetter(c) == c \in UpperSet \/ c \in LowerSet

UpperChar(c) ==
    IF c \in LowerSet
    THEN UpperCase[CHOOSE i \in 1..26 : LowerCase[i] = c]
    ELSE c

\* str.title(): a letter is upper-cased after a non-letter and lower-cased after a letter
titlecase(s) ==
    The({ [i \in 1..Len(v) |->
              IF i = 1 \/ ~IsLetter(v[i - 1]) THEN UpperChar(v[i]) ELSE LowerChar(v[i])]
          : v \in {s} })

RECURSIVE ReplaceFrom(_, _, _, _)
ReplaceFrom(v, old, new, i) ==
    IF i > Len(v) THEN <<>>
    ELSE IF i + Len(old) - 1 <= Len(v) /\ SubSeq(v, i, i + Len(old) - 1) = old
         THEN new \o ReplaceFrom(v, old, new, i + Len(old))
         ELSE <<v[i]>> \o ReplaceFrom(v, old, new, i + 1)

\* s.replace(old, new), old not empty
replace(s, old, new) ==
    The({ ReplaceFrom(v, o, n, 1) : v \in {s}, o \in {old}, n \in {new} })

\* s.startswith(prefix)
startswith(s, prefix) ==
    \E v \in {s}, p \in {prefix} : Len(v) >= Len(p) /\ SubSeq(v, 1, Len(p)) = p

-----------------------------------------------------------------------------
(* The re module. A pattern is a tree of records; Ends(r, v)[i] is the list of *)
(* positions at which a match of r that starts after the first i characters   *)
(* of v can end, in the order the backtracking matcher tries them, so that    *)
(* its head is the match re makes (greedy repetition, leftmost alternative).  *)

RECURSIVE ConcatFrom(_, _, _)
\* the lists from the first-th to the last-th of a list of lists, one after another
ConcatFrom(lists, first, last) ==
    IF first > last THEN <<>>
    ELSE IF first = last THEN lists[first]
    ELSE ConcatFrom(lists, first, (first + last) \div 2)
             \o ConcatFrom(lists, (first + last) \div 2 + 1, last)

Concat(lists) == The({ ConcatFrom(l, 1, Len(l)) : l \in {lists} })

\* the list without the later occurrences of its elements
Unique(list) ==
    The({ SelectSeq([ k \in DOMAIN l |-> IF \E j \in 1..(k - 1) : l[j] = l[k] THEN -1 ELSE l[k] ],
                    LAMBDA e : e >= 0)
          : l \in {list} })

\* pattern constructors
OneOf(chars) == [op |-> "set", chars |-> chars, neg |-> FALSE]
NoneOf(chars) == [op |-> "set", chars |-> chars, neg |-> TRUE]
\* one pattern after another; a sequence inside a sequence is written out in it
Then(parts) ==
    [op |-> "seq",
     parts |-> Concat([ k \in DOMAIN parts |->
                          IF parts[k].op = "seq" THEN parts[k].parts ELSE << parts[k] >> ])]
Either(parts) == [op |-> "alt", parts |-> parts]
ZeroOrMore(r) == [op |-> "star", of |-> r]
OneOrMore(r) == Then(<< r, ZeroOrMore(r) >>)
Optional(r) == Either(<< r, Then(<<>>) >>)
NotAhead(r) == [op |-> "not_ahead", of |-> r]
\* ^ and $ under re.MULTILINE, ^ and $ without it, \b
LineStart == [op |-> "line_start"]
LineEnd == [op |-> "line_end"]
TextStart == [op |-> "text_start"]
TextEnd == [op |-> "text_end"]
WordEdge == [op |-> "word_edge"]

\* the characters of a literal, and of a literal under re.I
Literal(s) == [op |-> "text", chars |-> [ k \in 1..Len(s) |-> {SubSeq(s, k, k)} ]]
LiteralI(s) ==
    [op |-> "text",
     chars |-> [ k \in 1..Len(s) |-> {LowerChar(SubSeq(s, k, k)), UpperChar(SubSeq(s, k, k))} ]]

\* \s, \d, [^\n]
SpaceChars == {" ", "\t", "\n", "\r", "\f"}
Space == OneOf(SpaceChars)
Digit == OneOf(DigitSet)
NotNewline == NoneOf({"\n"})
Newline == OneOf({"\n"})

RECURSIVE Ends(_, _)
RECURSIVE SeqEnds(_, _, _, _)
RECURSIVE StarEnds(_, _)

\* where the parts from the first-th to the last-th, matched one after another, can
\* end when they start at the positions of a list; tables[k] is Ends of the k-th part
SeqEnds(tables, first, last, starts) ==
    IF first > last \/ starts = <<>> THEN starts
    ELSE IF first = last
    THEN IF Len(starts) = 1 THEN tables[first][starts[1]]
         ELSE Unique(Concat([ j \in DOMAIN starts |-> tables[first][starts[j]] ]))
    ELSE The({ SeqEnds(tables, (first + last) \div 2 + 1, last, E)
               : E \in { SeqEnds(tables, first, (first + last) \div 2, starts) } })

\* where zero or more matches in a row can end, of being Ends of the repeated pattern:
\* the longer rows first, and no further from a match that consumed nothing
StarEnds(of, i) ==
    Unique(Concat([ j \in DOMAIN of[i] |->
                      IF of[i][j] > i THEN StarEnds(of, of[i][j]) ELSE <<>> ]) \o << i >>)

\* the longest run of characters of a class after the first i characters of v
LongestRun(r, v, i) ==
    CHOOSE n \in 0..(Len(v) - i) :
        /\ i + n = Len(v) \/ (v[i + n + 1] \in r.chars) = r.neg
        /\ \A k \in 1..n : (v[i + k] \in r.chars) /= r.neg

Ends(r, v) ==
    CASE r.op = "set" ->
           [ i \in 0..Len(v) |->
               IF i < Len(v) /\ ((v[i + 1] \in r.chars) /= r.neg) THEN << i + 1 >> ELSE <<>> ]
      [] r.op = "text" ->
           [ i \in 0..Len(v) |->
               IF /\ i + Len(r.chars) <= Len(v)
                  /\ \A k \in DOMAIN r.chars : v[i + k] \in r.chars[k]
               THEN << i + Len(r.chars) >> ELSE <<>> ]
      [] r.op = "seq" ->
           The({ [ i \in 0..Len(v) |-> SeqEnds(tables, 1, Len(tables), << i >>) ]
                 : tables \in { [ k \in DOMAIN r.parts |-> Ends(r.parts[k], v) ] } })
      [] r.op = "alt" ->
           The({ [ i \in 0..Len(v) |-> Unique(Concat([ k \in DOMAIN tables |-> tables[k][i] ])) ]
                 : tables \in { [ k \in DOMAIN r.parts |-> Ends(r.parts[k], v) ] } })
      [] r.op = "star" /\ r.of.op = "set" ->
           \* a run of single characters: every length from the longest down to none
           [ i \in 0..Len(v) |->
               The({ [ j \in 1..(longest + 1) |-> i + longest + 1 - j ]
                     : longest \in { LongestRun(r.of, v, i) } }) ]
      [] r.op = "star" ->
           The({ [ i \in 0..Len(v) |-> StarEnds(of, i) ] : of \in { Ends(r.of, v) } })
      [] r.op = "not_ahead" ->
           The({ [ i \in 0..Len(v) |-> IF of[i] = <<>> THEN << i >> ELSE <<>> ]
                 : of \in { Ends(r.of, v) } })
      [] r.op = "line_start" ->
           [ i \in 0..Len(v) |-> IF i = 0 \/ v[i] = "\n" THEN << i >> ELSE <<>> ]
      [] r.op = "line_end" ->
           [ i \in 0..Len(v) |-> IF i = Len(v) \/ v[i + 1] = "\n" THEN << i >> ELSE <<>> ]
      [] r.op = "text_start" -> [ i \in 0..Len(v) |-> IF i = 0 THEN << i >> ELSE <<>> ]
      [] r.op = "text_end" ->
           [ i \in 0..Len(v) |->
               IF i = Len(v) \/ (i = Len(v) - 1 /\ v[i + 1] = "\n") THEN << i >> ELSE <<>> ]
      [] r.op = "word_edge" ->
           [ i \in 0..Len(v) |->
               IF (i >= 1 /\ IsWordChar(v[i])) /= (i < Len(v) /\ IsWordChar(v[i + 1]))
               THEN << i >> ELSE <<>> ]

NoMatch == [found |-> FALSE, start |-> 0, end |-> 0]

\* re.match(r, s): the match at the start of s
re_match(r, s) ==
    The({ IF E = <<>> THEN NoMatch ELSE [found |-> TRUE, start |-> 0, end |-> E[1]]
          : E \in { The({ Ends(p, v)[0] : p \in {r}, v \in {s} }) } })

\* for each position, where the match that starts there ends (-1: no match starts there)
FirstEnds(r, s) ==
    The({ [ i \in DOMAIN ends |-> IF ends[i] = <<>> THEN -1 ELSE ends[i][1] ]
          : ends \in { The({ Ends(p, v) : p \in {r}, v \in {s} }) } })

\* the leftmost match at or after position from
NextMatch(ends, from) ==
    IF \A i \in DOMAIN ends : i >= from => ends[i] < 0 THEN NoMatch
    ELSE The({ [found |-> TRUE, start |-> i, end |-> ends[i]]
               : i \in { CHOOSE i \in DOMAIN ends :
                             /\ i >= from
                             /\ ends[i] >= 0
                             /\ \A j \in from..(i - 1) : ends[j] < 0 } })

\* re.search(r, s) from position from on: the leftmost match
re_search(r, s, from) == The({ NextMatch(ends, from) : ends \in { FirstEnds(r, s) } })

RECURSIVE MatchesFrom(_, _)
MatchesFrom(ends, from) ==
    The({ IF ~m.found THEN <<>>
          ELSE << m >> \o MatchesFrom(ends, IF m.end > m.start THEN m.end ELSE m.end + 1)
          : m \in { NextMatch(ends, from) } })

\* re.finditer(r, s): the successive matches, none overlapping another
re_finditer(r, s) == The({ MatchesFrom(ends, 0) : ends \in { FirstEnds(r, s) } })

\* re.split(r, s), r without groups
re_split(r, s) ==
    The({ The({ [ k \in 1..(Len(ms) + 1) |->
                    SubSeq(v, (IF k = 1 THEN 0 ELSE ms[k - 1].end) + 1,
                              IF k > Len(ms) THEN Len(v) ELSE ms[k].start) ]
                : ms \in { re_finditer(r, v) } })
          : v \in {s} })

\* re.sub(r, repl, s), repl without references
re_sub(r, repl, s) == The({ Concat([ k \in 1..(2 * Len(ps) - 1) |->
                                        IF k % 2 = 1 THEN ps[(k + 1) \div 2] ELSE repl ])
                            : ps \in { re_split(r, s) } })

\* where the group that closes pattern head . tail starts, in the match made at
\* start: heads and tails are Ends of head and of tail
TailStart(heads, tails, start) ==
    heads[start][CHOOSE j \in DOMAIN heads[start] :
                     /\ tails[heads[start][j]] /= <<>>
                     /\ \A h \in 1..(j - 1) : tails[heads[start][h]] = <<>>]

-----------------------------------------------------------------------------
(* kb_search.py *)

MIN_SCORE_THRESHOLD == 5

CLOSE_SCORE_GAP == 2

Words(list) == { Chars(list[i]) : i \in DOMAIN list }

STOP_WORDS ==
    Words(<< "how", "do", "i", "the", "is", "a", "an", "to", "of", "and", "in", "for", "on", "with",
             "at", "by", "from", "as", "it", "that", "this", "be", "are", "was", "were", "been",
             "have", "has", "had", "can", "could", "would", "should", "will", "my", "me", "we",
             "what", "when", "where", "which", "who", "why", "get", "got", "need", "want", "like",
             "up" >>)

INTENT_EMAIL_SETUP ==
    Words(<< "set", "setup", "configure", "add", "account", "company", "email", "mail",
             "exchange", "outlook" >>)
INTENT_PASSWORD_RESET == Words(<< "reset", "forgot", "change", "password", "recover" >>)
INTENT_VPN == Words(<< "vpn", "connect", "remote", "network" >>)

\* re.sub(r"[^\w\s]", " ", s)
PunctuationToSpace(s) ==
    The({ [i \in 1..Len(v) |-> IF IsWordChar(v[i]) \/ IsSpaceChar(v[i]) THEN v[i] ELSE " "]
          : v \in {s} })

\* re.sub(r"\s+", " ", s): every run of whitespace becomes one space
CollapseSpaces(s) ==
    The({ LET kept == { i \in 1..Len(v) : ~(IsSpaceChar(v[i]) /\ i > 1 /\ IsSpaceChar(v[i - 1])) }
          IN  [ k \in 1..Cardinality(kept) |->
                  The({ IF IsSpaceChar(v[i]) THEN " " ELSE v[i]
                        : i \in { i \in kept : Cardinality({ j \in kept : j < i }) = k - 1 } }) ]
          : v \in {s} })

normalize_text(text) ==
    IF text = <<>> THEN <<>>
    ELSE strip(CollapseSpaces(PunctuationToSpace(strip(lower(text)))))

IsKeyword(w) == w /= <<>> /\ w \notin STOP_WORDS /\ Len(w) > 1

extract_keywords(question) ==
    The({ IF normalized = <<>> THEN <<>> ELSE SelectSeq(split(normalized), IsKeyword)
          : normalized \in {normalize_text(question)} })

classify_intent(query) ==
    \* the three signal counts are named in a LET over the keyword set kws
    The({
    LET email_signals == Cardinality(kws \cap INTENT_EMAIL_SETUP)
        password_signals == Cardinality(kws \cap INTENT_PASSWORD_RESET)
        vpn_signals == Cardinality(kws \cap INTENT_VPN)
    IN  IF kws = {} THEN "unclear"
        ELSE IF password_signals >= 1 /\ email_signals = 0 THEN "password_reset"
        ELSE IF email_signals >= 2 /\ password_signals = 0 THEN "email_setup"
        ELSE IF \/ (email_signals >= 1 /\ Chars("setup") \in kws)
                \/ Chars("set") \in kws
                \/ Chars("configure") \in kws THEN "email_setup"
        ELSE IF vpn_signals >= 1 THEN "vpn"
        ELSE IF Chars("email") \in kws /\ password_signals >= 1 THEN "password_reset"
        ELSE IF Chars("email") \in kws
                /\ (Chars("set") \in kws \/ Chars("company") \in kws
                    \/ Chars("setup") \in kws) THEN "email_setup"
        ELSE "unclear"
    : kws \in { Range(extract_keywords(query)) } })

\* The knowledge base the candidate lists are drawn from. tags is a list, the
\* other fields are strings; a missing field is "" (what _field_text makes of None).
KnowledgeBase ==
    [ pw   |-> [id |-> "kb-pw", title |-> "Reset Password", category |-> "Account",
                content |-> "Reset your password on the login page.",
                tags |-> <<"password">>, summary |-> ""],
      em   |-> [id |-> "kb-em", title |-> "Company Email Setup", category |-> "Email",
                content |-> "Set up company email on your phone.",
                tags |-> <<"email", "setup">>, summary |-> "Configure company email"],
      vpn  |-> [id |-> "kb-vpn", title |-> "VPN Help", category |-> "",
                content |-> "Connect to the VPN.", tags |-> <<>>, summary |-> ""],
      prn  |-> [id |-> "kb-prn", title |-> "Printer Help", category |-> "",
                content |-> "The printer is offline.", tags |-> <<>>, summary |-> ""],
      desk |-> [id |-> "", title |-> "Office Hours", category |-> "",
                content |-> "The help desk is open.", tags |-> <<>>,
                summary |-> "Help desk opening hours"] ]

ArticleKeys == DOMAIN KnowledgeBase

\* The user texts of the model.
Queries ==
    { "How do I set up company email?", "help", "vpn", "I forgot my password",
      "Printer help", "", "How do I set up company email on the login page?",
      "I forgot my company email password" }

_field_text(article, key) ==
    IF key = "tags"
    THEN lower(join(<<" ">>, [i \in DOMAIN article.tags |-> Chars(article.tags[i])]))
    ELSE lower(Chars(article[key]))

\* \b at the gap after position pos of text (0 = before the first character)
WordBoundary(text, pos) ==
    LET before == pos >= 1 /\ IsWordChar(text[pos])
        after == pos < Len(text) /\ IsWordChar(text[pos + 1])
    IN  before /= after

\* re.search(rf"\b{re.escape(keyword)}\b", text, re.I)
_word_match(text, keyword) ==
    \E t \in {lower(text)}, k \in {lower(keyword)} :
        /\ t /= <<>>
        /\ k /= <<>>
        /\ \E i \in 0..(Len(t) - Len(k)) :
               /\ SubSeq(t, i + 1, i + Len(k)) = k
               /\ WordBoundary(t, i)
               /\ WordBoundary(t, i + Len(k))

\* set(re.findall(r"\b\w{3,}\b", s)): the maximal runs of word characters, 3 or longer
LongTokens(s) == { w \in Range(Runs(s, "word")) : Len(w) >= 3 }

_article_intent_hints(article) ==
    LET title == _field_text(article, "title")
        category == _field_text(article, "category")
        title_tokens == LongTokens(title)
        tokens == LongTokens(title \o <<" ">> \o category)
        setup_signals == Words(<< "setup", "configure", "add", "account", "company" >>)
    IN  (IF tokens \cap INTENT_PASSWORD_RESET /= {} THEN {"password_reset"} ELSE {})
        \cup
        (IF \/ title_tokens \cap setup_signals /= {}
            \/ Contains(title, Chars("set up"))
            \/ Contains(title, Chars("setup"))
         THEN {"email_setup"}
         ELSE IF /\ title_tokens \cap Words(<< "company", "email" >>) /= {}
                 /\ ~Contains(title, Chars("password"))
                 /\ ~Contains(title, Chars("reset"))
              THEN {"email_setup"}
              ELSE {})
        \cup
        (IF tokens \cap INTENT_VPN /= {} THEN {"vpn"} ELSE {})

\* the number of list positions whose keyword occurs in text as a whole word
MatchCount(text, keywords) ==
    Cardinality({ i \in DOMAIN keywords : _word_match(text, keywords[i]) })

Max(a, b) == IF a >= b THEN a ELSE b

\* the penalty the docstring of score_article names, -5
IntentAdjustment_DocstringPenalty(intent, hints) ==
    IF intent = "unclear" THEN 0
    ELSE IF intent \in hints THEN 4
    ELSE IF intent = "email_setup" /\ "password_reset" \in hints /\ "email_setup" \notin hints
         THEN -5
    ELSE IF intent = "password_reset" /\ "email_setup" \in hints /\ "password_reset" \notin hints
         THEN -5
    ELSE 0

IntentAdjustment(intent, hints) ==
    IF intent = "unclear" THEN 0
    ELSE IF intent \in hints THEN 4
    ELSE IF intent = "email_setup" /\ "password_reset" \in hints /\ "email_setup" \notin hints
         THEN -10
    ELSE IF intent = "password_reset" /\ "email_setup" \in hints /\ "password_reset" \notin hints
         THEN -10
    ELSE 0

score_article(article, keywords, intent) ==
    IF keywords = <<>> THEN 0
    ELSE
    LET title == _field_text(article, "title")
        category == _field_text(article, "category")
        content == _field_text(article, "content")
        tags_text == _field_text(article, "tags")
        summary == _field_text(article, "summary")
        phrase == join(<<" ">>, keywords)
        title_matches == MatchCount(title, keywords)
        content_matches == MatchCount(content, keywords)
        AnyMatch(text) == \E i \in DOMAIN keywords : _word_match(text, keywords[i])
        score ==
            (IF Contains(title, phrase) THEN 3 ELSE 0)
            + 2 * title_matches
            + (IF category /= <<>> /\ AnyMatch(category) THEN 2 ELSE 0)
            + content_matches
            + (IF tags_text /= <<>> /\ AnyMatch(tags_text) THEN 1 ELSE 0)
            + (IF summary /= <<>> /\ AnyMatch(summary) THEN 1 ELSE 0)
            + (IF title_matches + content_matches >= 2 THEN 3 ELSE 0)
            + IntentAdjustment(intent, _article_intent_hints(article))
    IN  Max(0, score)

(* Python dict operations *)

EmptyDict == [ k \in {} |-> 0 ]

\* d.get(k, default)
Get(d, k, default) == IF k \in DOMAIN d THEN d[k] ELSE default

\* d[k] = v
Put(d, k, v) == [ j \in DOMAIN d \cup {k} |-> IF j = k THEN v ELSE d[j] ]

\* None, where an article (a knowledge-base key) is expected
NoArticle == "None"

RECURSIVE SortedByScore_Ascending(_, _)
\* scored.sort(key=lambda x: x[1]): the sign of the key dropped
SortedByScore_Ascending(scored, n) ==
    IF n = 0 THEN <<>>
    ELSE LET rest == SortedByScore_Ascending(scored, n - 1)
             x == scored[n]
             ahead == Cardinality({ i \in DOMAIN rest : rest[i].score <= x.score })
         IN  SubSeq(rest, 1, ahead) \o <<x>> \o SubSeq(rest, ahead + 1, Len(rest))

RECURSIVE SortedByScore(_, _)
\* scored.sort(key=lambda x: -x[1]): stable, so equal scores keep their list order
SortedByScore(scored, n) ==
    IF n = 0 THEN <<>>
    ELSE LET rest == SortedByScore(scored, n - 1)
             x == scored[n]
             ahead == Cardinality({ i \in DOMAIN rest : rest[i].score >= x.score })
         IN  SubSeq(rest, 1, ahead) \o <<x>> \o SubSeq(rest, ahead + 1, Len(rest))

\* the gap test with the boundary left out
IsCloseCall_StrictGap(best_score, second_score, intent) ==
    (best_score - second_score) < CLOSE_SCORE_GAP /\ intent = "unclear"

IsCloseCall(best_score, second_score, intent) ==
    (best_score - second_score) <= CLOSE_SCORE_GAP /\ intent = "unclear"

\* Which refusal, if any, select_best_article makes of a ranked list.
EscalationReason(sorted, intent) ==
    IF Len(sorted) > 1 /\ IsCloseCall(sorted[1].score, sorted[2].score, intent)
    THEN "close_scores_unclear_intent"
    ELSE ""

Intents == {"email_setup", "password_reset", "vpn", "unclear"}

\* The pure text functions, tabulated once over the texts and articles of the
\* model: a call names its keywords by the text they were extracted from.
KeywordsOf == [ q \in Queries |-> extract_keywords(Chars(q)) ]

\* query_for_intent = (original_query or "").strip() or " ".join(keywords)
IntentOf ==
    [ query \in Queries |-> [ kw_text \in Queries |->
        classify_intent(IF strip(Chars(query)) /= <<>>
                        THEN strip(Chars(query))
                        ELSE join(<<" ">>, KeywordsOf[kw_text])) ] ]

ScoreTable ==
    [ a \in ArticleKeys |-> [ kw_text \in Queries |-> [ intent \in Intents |->
        score_article(KnowledgeBase[a], KeywordsOf[kw_text], intent) ] ] ]

\* the test with its first half turned round: only an article without id is skipped
IsExcluded_WithoutId(a, exclude) == KnowledgeBase[a].id = "" /\ KnowledgeBase[a].id \in exclude

\* if aid and aid in exclude: continue
IsExcluded(a, exclude) == KnowledgeBase[a].id /= "" /\ KnowledgeBase[a].id \in exclude

select_best_article(arts, kw_text, exclude, query) ==
    LET intent == IntentOf[query][kw_text]
        kept == SelectSeq(arts, LAMBDA a : ~IsExcluded(a, exclude))
        scored == [ i \in DOMAIN kept |->
                      [article |-> kept[i], score |-> ScoreTable[kept[i]][kw_text][intent]] ]
        sorted == SortedByScore(scored, Len(scored))
        best_score == sorted[1].score
        second_score == IF Len(sorted) > 1 THEN sorted[2].score ELSE 0
        reason == EscalationReason(sorted, intent)
        debug == [intent |-> intent,
                  keywords |-> KeywordsOf[kw_text],
                  scores |-> [ i \in 1..(IF Len(sorted) < 5 THEN Len(sorted) ELSE 5) |->
                                 <<KnowledgeBase[sorted[i].article].title, sorted[i].score>> ],
                  best_title |-> KnowledgeBase[sorted[1].article].title,
                  best_score |-> best_score,
                  second_score |-> second_score,
                  close_call |-> IF Len(sorted) > 1
                                 THEN (best_score - second_score) <= CLOSE_SCORE_GAP
                                 ELSE FALSE]
    IN  IF scored = <<>>
        THEN [article |-> NoArticle, score |-> 0,
              debug |-> [intent |-> intent, keywords |-> KeywordsOf[kw_text], scores |-> <<>>]]
        ELSE IF reason /= ""
        THEN [article |-> NoArticle, score |-> best_score,
              debug |-> Put(debug, "escalation_reason", reason)]
        ELSE [article |-> sorted[1].article, score |-> best_score, debug |-> debug]

-----------------------------------------------------------------------------
(* Calls of select_best_article *)

MaxArticles == 2

\* the lists of at most n distinct knowledge-base keys
RECURSIVE ArticleLists(_)
ArticleLists(n) ==
    IF n = 0 THEN { <<>> }
    ELSE LET shorter == ArticleLists(n - 1)
         IN  shorter \cup { Append(l, a) : l \in shorter, a \in ArticleKeys }

CandidateLists ==
    { l \in ArticleLists(MaxArticles) : \A i, j \in DOMAIN l : i /= j => l[i] /= l[j] }

ArticleIds == { KnowledgeBase[a].id : a \in ArticleKeys } \ {""}

\* no exclusion, or the id of one rejected suggestion
ExclusionLists == { {} } \cup { {i} : i \in ArticleIds }

PendingSelection == [status |-> "pending"]

NoCall == [status |-> "none"]

\* no ticket document is stored
NoTicket == [status |-> "none"]

\* no utterance has been classified, no ticket is stored and no request is under way
TicketsIdle == verdicts = EmptyDict /\ ticket = NoTicket /\ requests = <<>>

\* the keywords argument, as the callers compute it (tickets.py, flow_engine.py)
keywords == KeywordsOf[kw_source]

\* a request over a knowledge base; no conversation is under way
InitSelect ==
    /\ articles \in CandidateLists
    /\ kw_source \in Queries
    /\ original_query \in {"", kw_source}
    /\ exclude_article_ids \in ExclusionLists
    /\ selection = PendingSelection
    /\ first_call = NoCall
    /\ flow_config = "none"
    /\ current_step_id = ""
    /\ context = EmptyDict
    /\ user_message = ""
    /\ call_input = NoCall
    /\ result = NoCall
    /\ article_doc = EmptyDict
    /\ normal_input = EmptyDict
    /\ normal_result = NoCall
    /\ renormal_result = NoCall
    /\ TicketsIdle

\* the arguments of the call under way
CallArgs == << articles, kw_source, original_query, exclude_article_ids >>

\* What is on record of the first call once a call has returned (article, score):
\* its arguments and its result, and whether a call with other arguments has
\* been made since.
Recorded(article, score) ==
    IF first_call = NoCall
    THEN [status |-> "returned", args |-> CallArgs, article |-> article, score |-> score,
          between |-> FALSE]
    ELSE IF first_call.args /= CallArgs THEN [first_call EXCEPT !.between = TRUE]
    ELSE first_call

\* the ids an exclusion list shared between the calls would hold by now
Remembered ==
    IF first_call = NoCall \/ first_call.article = NoArticle THEN {}
    ELSE { KnowledgeBase[first_call.article].id } \ {""}

\* the call with an exclusion set that outlives it: every call adds to the same set
Select_SharedExclusions ==
    /\ selection = PendingSelection
    /\ selection' = [status |-> "returned"] @@
                    select_best_article(articles, kw_source,
                                        exclude_article_ids \cup Remembered, original_query)
    /\ first_call' = Recorded(selection'.article, selection'.score)
    /\ UNCHANGED << articles, kw_source, original_query, exclude_article_ids >>
    /\ UNCHANGED flowVars
    /\ UNCHANGED normalizeVars
    /\ UNCHANGED ticketVars

\* best_article, score, debug = select_best_article(articles, keywords, exclude, original_query)
Select ==
    /\ selection = PendingSelection
    /\ selection' = [status |-> "returned"] @@
                    select_best_article(articles, kw_source, exclude_article_ids, original_query)
    /\ first_call' = Recorded(selection'.article, selection'.score)
    /\ UNCHANGED << articles, kw_source, original_query, exclude_article_ids >>
    /\ UNCHANGED flowVars
    /\ UNCHANGED normalizeVars
    /\ UNCHANGED ticketVars

\* the next request over the same knowledge base: another user text
NewQuery(q) ==
    /\ selection /= PendingSelection
    /\ q /= kw_source
    /\ kw_source' = q
    /\ original_query' = q
    /\ selection' = PendingSelection
    /\ UNCHANGED << articles, exclude_article_ids, first_call >>
    /\ UNCHANGED flowVars
    /\ UNCHANGED normalizeVars
    /\ UNCHANGED ticketVars

NextSelect ==
    \/ Select
    \/ \E q \in Queries : NewQuery(q)

SpecSelect == InitSelect /\ [][NextSelect]_vars

-----------------------------------------------------------------------------
(* Properties of select_best_article *)

Returned == selection.status = "returned"

\* what the call under way was given
NonExcluded ==
    SelectSeq(articles, LAMBDA a : ~(KnowledgeBase[a].id /= "" /\ KnowledgeBase[a].id \in exclude_article_ids))

ClassifiedIntent == IntentOf[original_query][kw_source]

ScoreOf(a) == ScoreTable[a][kw_source][ClassifiedIntent]

\* the number of distinct keywords that occur, as whole words, in some field of the article
DistinctKeywordMatches ==
    [ a \in ArticleKeys |-> [ kw_text \in Queries |->
        Cardinality({ kw \in Range(KeywordsOf[kw_text]) :
                        \E f \in {"title", "tags", "category", "content", "summary"} :
                            _word_match(_field_text(KnowledgeBase[a], f), kw) }) ] ]

\* the best score among the non-excluded articles, and the best among the others
BestScore == CHOOSE x \in { ScoreOf(NonExcluded[i]) : i \in DOMAIN NonExcluded } :
                 \A i \in DOMAIN NonExcluded : ScoreOf(NonExcluded[i]) <= x

SecondScore ==
    LET top == CHOOSE i \in DOMAIN NonExcluded : ScoreOf(NonExcluded[i]) = BestScore
        others == { ScoreOf(NonExcluded[i]) : i \in DOMAIN NonExcluded \ {top} }
    IN  CHOOSE x \in others : \A y \in others : y <= x

\* C1: select_best_article never returns an article whose distinct-keyword-match
\* count against the keywords is below 2 (it never selects on one shared word).
C1_NeverSelectsOnOneSharedWord ==
    (Returned /\ selection.article /= NoArticle)
        => DistinctKeywordMatches[selection.article][kw_source] >= 2

\* C2: select_best_article returns None as the article whenever the best score
\* among the non-excluded articles is below MIN_SCORE_THRESHOLD; it never returns
\* an article together with a score below the threshold.
C2_NoArticleBelowThreshold ==
    Returned =>
        /\ (NonExcluded /= <<>> /\ BestScore < MIN_SCORE_THRESHOLD) => selection.article = NoArticle
        /\ selection.article /= NoArticle => selection.score >= MIN_SCORE_THRESHOLD

CloseScoresUnclearIntent ==
    /\ Len(NonExcluded) >= 2
    /\ BestScore - SecondScore <= CLOSE_SCORE_GAP
    /\ ClassifiedIntent = "unclear"

\* C3: when at least two non-excluded articles are scored, the top two scores
\* differ by at most CLOSE_SCORE_GAP and the classified intent is unclear, the
\* call returns None as the article and the debug trace carries
\* escalation_reason = "close_scores_unclear_intent".
C3_CloseScoresUnclearIntentRefused ==
    (Returned /\ CloseScoresUnclearIntent)
        => /\ selection.article = NoArticle
           /\ Get(selection.debug, "escalation_reason", "") = "close_scores_unclear_intent"

\* "help" against two equally scored articles, refused
C3_Witness ==
    /\ Returned
    /\ CloseScoresUnclearIntent
    /\ kw_source = "help"
    /\ Len(NonExcluded) = 2
    /\ BestScore = SecondScore
    /\ BestScore > 0
    /\ selection.article = NoArticle

\* C16: select_best_article never returns an article whose id is in the exclusion
\* list, so a selection re-run with the id of the rejected article excluded does not
\* repeat that suggestion.
C16_ExcludedNeverReturned ==
    (Returned /\ selection.article /= NoArticle)
        => KnowledgeBase[selection.article].id \notin exclude_article_ids

\* the article that scores best of the candidates is the excluded one, and another
\* article is returned
C16_Witness ==
    /\ Returned
    /\ selection.article /= NoArticle
    /\ \E i \in DOMAIN articles :
           /\ KnowledgeBase[articles[i]].id \in exclude_article_ids
           /\ ScoreOf(articles[i]) > selection.score

\* no refusal gate fires: there is a candidate left, and the close-score gate is open
NoRefusal == NonExcluded /= <<>> /\ ~CloseScoresUnclearIntent

\* C17: when no refusal gate fires, select_best_article returns the top-scoring
\* article: no non-excluded candidate has a strictly higher score_article value than
\* the returned one, and the returned score is the score of the returned article.
C17_ReturnsTopScoring ==
    (Returned /\ NoRefusal)
        => /\ selection.article /= NoArticle
           /\ \E i \in DOMAIN NonExcluded : NonExcluded[i] = selection.article
           /\ \A i \in DOMAIN NonExcluded : ScoreOf(NonExcluded[i]) <= ScoreOf(selection.article)
           /\ selection.score = ScoreOf(selection.article)

\* the second of two candidates of different scores is returned
C17_Witness ==
    /\ Returned
    /\ NoRefusal
    /\ Len(NonExcluded) = 2
    /\ ScoreOf(NonExcluded[1]) < ScoreOf(NonExcluded[2])
    /\ selection.article = NonExcluded[2]

\* Twice the score the specification describes (twice, to keep the weight 1.5 a whole number):
\* per keyword and matching field, title 4, tags 3, category 2, content 1, summary
\* 1.5, and 3 more when the space-joined keywords occur in the title.
ReferenceScoreTwice ==
    [ a \in ArticleKeys |-> [ kw_text \in Queries |->
        IF KeywordsOf[kw_text] = <<>> THEN 0
        ELSE 8 * MatchCount(_field_text(KnowledgeBase[a], "title"), KeywordsOf[kw_text])
             + 6 * MatchCount(_field_text(KnowledgeBase[a], "tags"), KeywordsOf[kw_text])
             + 4 * MatchCount(_field_text(KnowledgeBase[a], "category"), KeywordsOf[kw_text])
             + 2 * MatchCount(_field_text(KnowledgeBase[a], "content"), KeywordsOf[kw_text])
             + 3 * MatchCount(_field_text(KnowledgeBase[a], "summary"), KeywordsOf[kw_text])
             + (IF Contains(_field_text(KnowledgeBase[a], "title"),
                            join(<<" ">>, KeywordsOf[kw_text]))
                THEN 6 ELSE 0) ] ]

\* C18: the keyword part of the score score_article computes (the score before the
\* intent adjustment) is one contribution per keyword per matching field with the
\* weights title 4, tags 3, category 2, content 1, summary 1.5, plus 3 when the
\* space-joined keywords occur in the title.
C18_ScoreFollowsReferenceWeights ==
    Returned =>
        \A i \in DOMAIN NonExcluded :
            2 * ScoreTable[NonExcluded[i]][kw_source]["unclear"]
                = ReferenceScoreTwice[NonExcluded[i]][kw_source]

HintsOf == [ a \in ArticleKeys |-> _article_intent_hints(KnowledgeBase[a]) ]

\* the score of an article before the intent adjustment
KeywordScore(a) == ScoreTable[a][kw_source]["unclear"]

\* the article is about the one of the two topics and not about the other
OnlyAbout(a, topic, other) == topic \in HintsOf[a] /\ other \notin HintsOf[a]

-----------------------------------------------------------------------------
(* flow_engine.py: flow_advance and what it calls *)

CONFIRMATION_KEYWORDS ==
    Words(<< "done", "completed", "yes", "finished", "ok", "ready", "did it", "completed it",
             "i'm there", "im there", "i am there", "i'm here", "im here", "i am here",
             "ive gone", "i've gone", "got it", "did that",
             "next", "fixed", "that worked" >>)

\* the sixth phrase has a typographic apostrophe in the source
ADVANCE_MIDDLE ==
    << "Nice.", "Got it.", "Alright, next:", "Next step:", "Moving on:", "Here's the next one:" >>

ADVANCE_LAST_STEP == << "Last step:", "Final step:", "One more:", "Almost there:" >>

COMPLETION_VARIATIONS ==
    << "That's all I have. Can you confirm if everything is working, or do you want me to escalate to support?",
       "That is all. Is everything working, or should I escalate this to a support engineer?",
       "We've gone through all the steps. Let me know if it's working, or if you'd like me to escalate to support." >>

CLARIFICATION_VARIATIONS ==
    << "I didn't catch that. Please choose one of the options above.",
       "Could you pick one of the options?",
       "Which option applies to you?" >>

\* random.choice(items), the draw being pick
_pick(items, pick) == IF items = <<>> THEN "" ELSE items[(pick % Len(items)) + 1]

is_confirmation_message(message) ==
    \E m \in {strip(lower(message))} :
        \/ \E p \in CONFIRMATION_KEYWORDS : Contains(m, p)
        \/ m \in Words(<< "yes", "y", "ok", "k" >>)

get_completion_reply(pick) == _pick(COMPLETION_VARIATIONS, pick)

_format_platform_step(step_index, total_steps, instruction, device, article_title, is_first, pick) ==
    LET device_label == Text(titlecase(replace(Chars(device), <<"_">>, <<" ">>)))
        topic == Text(lower(Chars(IF article_title /= "" THEN article_title ELSE "this")))
    IN  IF is_first /\ step_index = 1
        THEN _pick(<< "Great,", "Alright,", "Sure,", "Okay," >>, pick)
             \o " I'll guide you through " \o topic \o " on your " \o device_label \o ".\n\n"
             \o "**Step 1:**\n" \o instruction \o "\n\n"
             \o "Let me know when you're there."
        ELSE IF step_index < total_steps
        THEN _pick(ADVANCE_MIDDLE, pick)
             \o "\n\n**Step " \o str(step_index) \o ":**\n" \o instruction \o "\n\n"
             \o "Let me know when you've done that."
        ELSE _pick(ADVANCE_LAST_STEP, pick)
             \o "\n\n**Step " \o str(step_index) \o ":**\n" \o instruction \o "\n\n"
             \o "Let me know when you've completed this step."

_humanize_step(step_dict, step_idx, total, article_title, pick) ==
    LET raw == step_dict.message
    IN  IF step_idx = 1 /\ total >= 1
        THEN _pick(<< "Great,", "Alright,", "Sure," >>, pick)
             \o " I'll guide you through " \o (IF article_title /= "" THEN article_title ELSE "this")
             \o ".\n\n**Step 1:**\n" \o raw \o "\n\nLet me know when you're there."
        ELSE IF step_idx < total
        THEN _pick(ADVANCE_MIDDLE, pick)
             \o "\n\n**Step " \o str(step_idx) \o ":**\n" \o raw
             \o "\n\nLet me know when you've done that."
        ELSE _pick(ADVANCE_LAST_STEP, pick)
             \o "\n\n**Step " \o str(step_idx) \o ":**\n" \o raw
             \o "\n\nLet me know when you've completed this step."

\* None, where a step is expected
NoStep == EmptyDict

\* what a call of flow_advance comes to: the returned triple, or the exception it raises
Returns(step, reply, new_context) ==
    [status |-> "returned", step |-> step, reply |-> reply, context |-> new_context]

Raises(error) == [status |-> "raised", error |-> error]

\* context["flow_completed"] = True; return (None, get_completion_reply(), context)
Finish_Unflagged(ctx, pick) == Returns(NoStep, get_completion_reply(pick), ctx)

Finish(ctx, pick) == Returns(NoStep, get_completion_reply(pick), Put(ctx, "flow_completed", TRUE))

\* next((s for s in flow if s.get("step_id") == step_id), None)
StepById(flow, step_id) ==
    IF \E i \in DOMAIN flow : flow[i].step_id = step_id
    THEN flow[CHOOSE i \in DOMAIN flow :
                  /\ flow[i].step_id = step_id
                  /\ \A j \in 1..(i - 1) : flow[j].step_id /= step_id]
    ELSE NoStep

\* the step the call is at: the one named by current_step_id, the first one if none is
CurrentStep(flow, step_id) ==
    IF StepById(flow, step_id) /= NoStep THEN StepById(flow, step_id) ELSE flow[1]

\* (opt.get("value") or opt.get("label") or "").lower()
OptionValue(opt) == lower(Chars(IF opt.value /= "" THEN opt.value ELSE opt.label))

\* (opt.get("label") or opt.get("value") or "").lower()
OptionLabel(opt) == lower(Chars(IF opt.label /= "" THEN opt.label ELSE opt.value))

OptionMatches(msg_lower, opt) ==
    \E val \in {OptionValue(opt)}, lab \in {OptionLabel(opt)} :
        \/ msg_lower = val
        \/ msg_lower = lab
        \/ Contains(val, msg_lower)
        \/ Contains(msg_lower, val)

\* the 1-based index the utterance names, 0 if it names none
NamedIndex(options, msg_lower) ==
    IF isdigit(msg_lower) /\ DigitsValue(msg_lower, Len(msg_lower)) \in 1..Len(options)
    THEN DigitsValue(msg_lower, Len(msg_lower))
    ELSE 0

\* an utterance that matches nothing is taken for the first option
MatchedChoice_FirstByDefault(options, msg_lower) ==
    LET hits == { i \in DOMAIN options : OptionMatches(msg_lower, options[i]) }
        named == IF hits = {} THEN <<>>
                 ELSE OptionValue(options[CHOOSE i \in hits : \A j \in hits : i <= j])
    IN  IF named /= <<>> THEN Text(named)
        ELSE IF NamedIndex(options, msg_lower) > 0
        THEN Text(OptionValue(options[NamedIndex(options, msg_lower)]))
        ELSE Text(OptionValue(options[1]))

\* the choice the utterance makes among the options, "" if it makes none
MatchedChoice(options, msg_lower) ==
    LET hits == { i \in DOMAIN options : OptionMatches(msg_lower, options[i]) }
        named == IF hits = {} THEN <<>>
                 ELSE OptionValue(options[CHOOSE i \in hits : \A j \in hits : i <= j])
    IN  IF named /= <<>> THEN Text(named)
        ELSE IF NamedIndex(options, msg_lower) > 0
        THEN Text(OptionValue(options[NamedIndex(options, msg_lower)]))
        ELSE ""

\* int(x or 1) of a str x: ValueError unless x is empty or a run of digits
IntOrOne(x) ==
    IF x = <<>> THEN [ok |-> TRUE, value |-> 1]
    ELSE IF isdigit(x) THEN [ok |-> TRUE, value |-> DigitsValue(x, Len(x))]
    ELSE [ok |-> FALSE, value |-> 0]

\* int((step_id or "step_1").replace("step_", "") or 1)
StepNumber(step_id) ==
    IntOrOne(replace(Chars(IF step_id /= "" THEN step_id ELSE "step_1"), Chars("step_"), <<>>))

\* the option step is asked again whether or not a device is held
AwaitsChoice_Relock(options, device_context) == options /= <<>>

\* if options and not device_context
AwaitsChoice(options, device_context) == options /= <<>> /\ device_context = ""

\* The utterances of the model.
Utterances ==
    { "done", " Done ", "k", "iphone", "I use Android", "ok, android", "2", "7", "hello", "",
      "  ", "windows" }

\* (user_message or "").lower().strip(), tabulated over the utterances
MsgLower == [ m \in Utterances |-> strip(lower(Chars(m))) ]

\* is_confirmation_message(msg_lower), tabulated over the utterances
Confirms == [ m \in Utterances |-> is_confirmation_message(MsgLower[m]) ]

\* the draws of random.choice: every phrase of every pool is reached
Picks == 0..5

flow_advance(flow, step_id, ctx, message, platform_steps, article_title, pick) ==
    LET msg_lower == MsgLower[message]
        device_context == Text(lower(Chars(Get(ctx, "device_type", ""))))
        steps == IF device_context /= "" THEN Get(platform_steps, device_context, <<>>) ELSE <<>>
        total_steps == Len(steps)
        step_index == Get(ctx, "platform_step_index", 1)
        current_step == CurrentStep(flow, step_id)
        options == current_step.options
        choice == MatchedChoice(options, msg_lower)
        chosen_steps == Get(platform_steps, choice, <<>>)
        chosen == Put(ctx, "device_type", choice)
        total_instruction_steps ==
            Cardinality({ i \in DOMAIN flow : startswith(Chars(flow[i].step_id), Chars("step_")) })
        next_or_first == IF current_step.next /= "" THEN current_step.next ELSE "step_1"
        next_or_end == IF current_step.next /= "" THEN current_step.next ELSE "end"
        \* return (step, _humanize_step(step, int(...), total_instruction_steps), context)
        Humanized(step) ==
            IF StepNumber(step.step_id).ok
            THEN Returns(step,
                         _humanize_step(step, StepNumber(step.step_id).value,
                                        total_instruction_steps, article_title, pick),
                         ctx)
            ELSE Raises("ValueError")
    IN  IF AwaitsChoice(options, device_context)
        THEN IF choice /= ""
             THEN IF platform_steps /= EmptyDict /\ chosen_steps /= <<>>
                  THEN Returns([step_id |-> "platform_step_1", message |-> chosen_steps[1]],
                               _format_platform_step(1, Len(chosen_steps), chosen_steps[1], choice,
                                                     article_title, TRUE, pick),
                               Put(chosen, "platform_step_index", 1))
                  ELSE Finish(chosen, pick)
             ELSE Returns(current_step, _pick(CLARIFICATION_VARIATIONS, pick), ctx)
        ELSE IF /\ platform_steps /= EmptyDict /\ device_context /= "" /\ steps /= <<>>
                /\ Confirms[message] /\ step_index < total_steps
        THEN Returns([step_id |-> "platform_step_" \o str(step_index + 1),
                      message |-> steps[step_index + 1]],
                     _format_platform_step(step_index + 1, total_steps, steps[step_index + 1],
                                           device_context, article_title, FALSE, pick),
                     Put(ctx, "platform_step_index", step_index + 1))
        ELSE IF /\ platform_steps /= EmptyDict /\ device_context /= "" /\ steps /= <<>>
                /\ Confirms[message]
        THEN Finish(ctx, pick)
        ELSE IF /\ platform_steps /= EmptyDict /\ device_context /= "" /\ steps /= <<>>
                /\ step_index <= total_steps
        THEN Returns([step_id |-> "platform_step_" \o str(step_index),
                      message |-> steps[step_index]],
                     _format_platform_step(step_index, total_steps, steps[step_index],
                                           device_context, article_title, step_index = 1, pick),
                     ctx)
        ELSE IF options /= <<>> /\ device_context /= ""
        THEN IF StepById(flow, next_or_first) /= NoStep
             THEN Humanized(StepById(flow, next_or_first))
             ELSE Finish(ctx, pick)
        ELSE IF Confirms[message]
        THEN IF next_or_end = "end" THEN Finish(ctx, pick)
             ELSE IF StepById(flow, next_or_end) /= NoStep
             THEN Humanized(StepById(flow, next_or_end))
             ELSE Finish(ctx, pick)
        ELSE Humanized(current_step)

-----------------------------------------------------------------------------
(* Conversations over flow_advance *)

MaxPlatformSteps == 2

MaxLinearSteps == 2

Step(id, text, opts, save, nxt) ==
    [step_id |-> id, message |-> text, options |-> opts, save_as |-> save,
     condition |-> "", next |-> nxt]

\* the device step of convert_legacy_content_to_flow over the detected platforms
DeviceStep(platform_headers) ==
    Step("device", "What device are you using?",
         [ i \in DOMAIN platform_headers |->
             [value |-> Text(lower(Chars(platform_headers[i]))),
              label |-> Text(titlecase(replace(Chars(platform_headers[i]), <<"-">>, <<" ">>)))] ],
         "device_type", "step_1")

\* the steps parsed from a platform's section of the article
PlatformSection(device, n) ==
    [ k \in 1..n |-> "On the " \o device \o ", do part " \o str(k) \o "." ]

NumberedSteps == << "Open settings", "Click reset" >>

\* the linear flow of convert_legacy_content_to_flow over n numbered steps
LinearFlow(n) ==
    [ i \in 1..n |->
        Step("step_" \o str(i),
             IF i <= Len(NumberedSteps) THEN NumberedSteps[i] ELSE "Do part " \o str(i) \o ".",
             <<>>, "",
             IF i + 1 <= n THEN "step_" \o str(i + 1) ELSE "end") ]

\* The flows of the model, each with the platform_steps and the title its caller passes:
\*   converted_platform  a legacy article with a section per device
\*   converted_linear    a legacy article of numbered steps
\*   authored_linear     an authored flow whose steps have names of their own
\*   authored_choice     an authored flow that opens with a question
FlowConfigs ==
    [ converted_platform |->
        [flow |-> << DeviceStep(<< "iphone", "android" >>) >>,
         platform_steps |-> [iphone |-> PlatformSection("iphone", MaxPlatformSteps),
                             android |-> PlatformSection("android", 1)],
         article_title |-> "Email Setup"],
      converted_linear |->
        [flow |-> LinearFlow(MaxLinearSteps),
         platform_steps |-> EmptyDict,
         article_title |-> "Reset Password"],
      authored_linear |->
        [flow |-> << Step("intro", "Open the portal", <<>>, "", "finish"),
                     Step("finish", "Submit the form", <<>>, "", "end") >>,
         platform_steps |-> EmptyDict,
         article_title |-> ""],
      authored_choice |->
        [flow |-> << Step("os", "Which system do you use?",
                          << [value |-> "windows", label |-> "Windows"],
                             [value |-> "mac", label |-> "Mac"] >>,
                          "os_type", "step_1"),
                     Step("step_1", "Open the VPN client", <<>>, "", "step_2"),
                     Step("step_2", "Press connect", <<>>, "", "end") >>,
         platform_steps |-> EmptyDict,
         article_title |-> "VPN Help"] ]

FlowNames == DOMAIN FlowConfigs

\* a conversation starts at the first step of its flow with an empty context; no
\* selection is under way
InitFlow ==
    /\ flow_config \in FlowNames
    /\ current_step_id = FlowConfigs[flow_config].flow[1].step_id
    /\ context = EmptyDict
    /\ user_message = ""
    /\ call_input = NoCall
    /\ result = NoCall
    /\ articles = <<>>
    /\ kw_source = ""
    /\ original_query = ""
    /\ exclude_article_ids = {}
    /\ selection = NoCall
    /\ first_call = NoCall
    /\ article_doc = EmptyDict
    /\ normal_input = EmptyDict
    /\ normal_result = NoCall
    /\ renormal_result = NoCall
    /\ TicketsIdle

\* next_step, reply, context = flow_advance(flow, current_step_id, context, message,
\* platform_steps, title); the caller moves to the step it is given and keeps the context
Advance(message, pick) ==
    /\ user_message' = message
    /\ call_input' = [step_id |-> current_step_id, context |-> context]
    /\ result' = flow_advance(FlowConfigs[flow_config].flow, current_step_id, context, message,
                              FlowConfigs[flow_config].platform_steps,
                              FlowConfigs[flow_config].article_title, pick)
    /\ context' = IF result'.status = "returned" THEN result'.context ELSE context
    /\ current_step_id' = IF result'.status = "returned" /\ result'.step /= NoStep
                          THEN result'.step.step_id
                          ELSE current_step_id
    /\ UNCHANGED flow_config
    /\ UNCHANGED selectVars
    /\ UNCHANGED normalizeVars
    /\ UNCHANGED ticketVars

NextFlow == \E message \in Utterances, pick \in Picks : Advance(message, pick)

SpecFlow == InitFlow /\ [][NextFlow]_vars

-----------------------------------------------------------------------------
(* Properties of flow_advance, stated of the last call: call_input is what it *)
(* was given, result what it came to, current_step_id and context what the    *)
(* caller holds afterwards.                                                   *)

Called == result.status /= "none"

TheFlow == FlowConfigs[flow_config].flow

PlatformSteps == FlowConfigs[flow_config].platform_steps

\* the step the call was at, the device it found locked and the index it found
InputStep == CurrentStep(TheFlow, call_input.step_id)

InputDevice == Get(call_input.context, "device_type", "")

InputIndex == Get(call_input.context, "platform_step_index", 1)

DeviceSteps == Get(PlatformSteps, InputDevice, <<>>)

OtherDevices == DOMAIN PlatformSteps \ {InputDevice}

IsPlatformStep(step, steps, index) ==
    /\ index \in DOMAIN steps
    /\ step = [step_id |-> "platform_step_" \o str(index), message |-> steps[index]]

NoOptionMatches ==
    /\ \A i \in DOMAIN InputStep.options :
           ~OptionMatches(MsgLower[user_message], InputStep.options[i])
    /\ NamedIndex(InputStep.options, MsgLower[user_message]) = 0

IsOneOf(reply, variations) == \E i \in DOMAIN variations : reply = variations[i]

\* C5: when the current step offers options, no device is locked and the
\* utterance matches none of the options (by value or label, or as a 1-based
\* index), flow_advance returns the same step (same step_id) with a clarification
\* message and a context equal to the input context: no device is recorded and no
\* step index is advanced.
C5_UnmatchedOptionAsksAgain ==
    (Called /\ InputStep.options /= <<>> /\ InputDevice = "" /\ NoOptionMatches) =>
        /\ result.status = "returned"
        /\ result.step = InputStep
        /\ result.step.step_id = call_input.step_id
        /\ IsOneOf(result.reply, CLARIFICATION_VARIATIONS)
        /\ result.context = call_input.context
        /\ "device_type" \notin DOMAIN result.context
        /\ "platform_step_index" \notin DOMAIN result.context
        /\ current_step_id = call_input.step_id

\* "7" at the device question of a two-device article
C5_Witness ==
    /\ Called
    /\ flow_config = "converted_platform"
    /\ call_input.step_id = "device"
    /\ InputDevice = ""
    /\ user_message = "7"
    /\ NoOptionMatches
    /\ result.status = "returned"
    /\ IsOneOf(result.reply, CLARIFICATION_VARIATIONS)
    /\ current_step_id = "device"

OptionChosen == InputStep.options /= <<>> /\ InputDevice = "" /\ ~NoOptionMatches

ChosenValue == MatchedChoice(InputStep.options, MsgLower[user_message])

\* C6: when the utterance matches an option of the current option step and no
\* device is locked, flow_advance stores the chosen value in the context under
\* the key named by that step's save_as, sets the position to step 1 of the
\* chosen device, and returns the first step of that device's step list.
C6_ChoiceStoredUnderSaveAs ==
    (Called /\ OptionChosen) =>
        /\ result.status = "returned"
        /\ Get(result.context, InputStep.save_as, "") = ChosenValue
        /\ Get(result.context, "platform_step_index", 0) = 1
        /\ result.step /= NoStep
        /\ IsPlatformStep(result.step, Get(PlatformSteps, ChosenValue, <<>>), 1)

\* a device is locked and platform_steps has steps for it
LockedWithSteps == InputDevice /= "" /\ DeviceSteps /= <<>>

\* the call is at a step of a linear flow: no options, no device steps to follow
LinearStep == InputStep.options = <<>> /\ ~LockedWithSteps

\* C7: a confirmation utterance advances the flow by exactly one step: with a
\* device locked at index i < total it returns step i+1 of that device and sets
\* the index to i+1; in a linear flow it returns the step whose step_id equals the
\* current step's next. No step is skipped.
C7_ConfirmationAdvancesOneStep ==
    (Called /\ Confirms[user_message]) =>
        /\ (LockedWithSteps /\ InputIndex < Len(DeviceSteps)) =>
               /\ result.status = "returned"
               /\ IsPlatformStep(result.step, DeviceSteps, InputIndex + 1)
               /\ Get(result.context, "platform_step_index", 0) = InputIndex + 1
        /\ (LinearStep /\ StepById(TheFlow, InputStep.next) /= NoStep) =>
               /\ result.status = "returned"
               /\ result.step = StepById(TheFlow, InputStep.next)
               /\ current_step_id = InputStep.next

\* C8: with a device locked, or in a linear flow, an utterance that is not a
\* confirmation makes flow_advance return the current step again with the
\* context unchanged, so that repeating the call yields the same step and the
\* same context.
C8_OtherUtteranceResendsCurrentStep ==
    (Called /\ ~Confirms[user_message] /\ (InputDevice /= "" \/ InputStep.options = <<>>)) =>
        /\ result.status = "returned"
        /\ result.step /= NoStep
        /\ result.step.step_id = call_input.step_id
        /\ result.context = call_input.context
        /\ current_step_id = call_input.step_id

\* the device index equals the number of device steps, or the linear step's next is "end"
AtLastStep ==
    \/ LockedWithSteps /\ InputIndex = Len(DeviceSteps)
    \/ LinearStep /\ InputStep.next = "end"

\* C9: a confirmation utterance at the last step makes flow_advance return no
\* next step (None) with a completion message and a context in which
\* flow_completed is true.
C9_ConfirmationAtLastStepCompletes ==
    (Called /\ Confirms[user_message] /\ AtLastStep) =>
        /\ result.status = "returned"
        /\ result.step = NoStep
        /\ IsOneOf(result.reply, COMPLETION_VARIATIONS)
        /\ Get(result.context, "flow_completed", FALSE) = TRUE
        /\ current_step_id = call_input.step_id

\* " Done " at the last iphone step of a flow not yet completed
C9_Witness ==
    /\ Called
    /\ flow_config = "converted_platform"
    /\ InputDevice = "iphone"
    /\ InputIndex = Len(DeviceSteps)
    /\ "flow_completed" \notin DOMAIN call_input.context
    /\ user_message = " Done "
    /\ result.status = "returned"
    /\ result.step = NoStep
    /\ context["flow_completed"] = TRUE

\* C10: completed is terminal: once a call has returned the completion outcome
\* (no next step, flow_completed true in the returned context), no later call on
\* that context, for any utterance, returns a step or changes the position.
C10_CompletedIsTerminal ==
    (Called /\ Get(call_input.context, "flow_completed", FALSE) = TRUE) =>
        /\ result.status = "returned"
        /\ result.step = NoStep
        /\ current_step_id = call_input.step_id

\* the utterance is empty once trimmed
BlankUtterance == MsgLower[user_message] = <<>>

\* C26: at an option step with no device locked, an empty or whitespace-only
\* utterance never locks a device: flow_advance returns the clarification outcome
\* (the same step, a clarification message) and leaves device_type unset.
C26_BlankUtteranceLocksNoDevice ==
    (Called /\ InputStep.options /= <<>> /\ InputDevice = "" /\ BlankUtterance) =>
        /\ result.status = "returned"
        /\ result.step = InputStep
        /\ IsOneOf(result.reply, CLARIFICATION_VARIATIONS)
        /\ "device_type" \notin DOMAIN result.context

\* the completion outcome: no next step, flow_completed true in the returned context
Completes(r) ==
    /\ r.status = "returned"
    /\ r.step = NoStep
    /\ Get(r.context, "flow_completed", FALSE) = TRUE

RECURSIVE ConfirmRun(_, _, _, _, _)
\* the outcomes of n calls with the utterance m in a row, each on the step and the
\* context the caller holds after the call before it (as Advance threads them)
ConfirmRun(cfg, step_id, ctx, m, n) ==
    IF n = 0 THEN <<>>
    ELSE LET r == flow_advance(cfg.flow, step_id, ctx, m, cfg.platform_steps,
                               cfg.article_title, 0)
         IN  << r >> \o
             ConfirmRun(cfg,
                        IF r.status = "returned" /\ r.step /= NoStep
                        THEN r.step.step_id ELSE step_id,
                        IF r.status = "returned" THEN r.context ELSE ctx,
                        m, n - 1)

\* the call has locked a device that platform_steps has steps for
JustLocked ==
    /\ Called
    /\ InputDevice = ""
    /\ result.status = "returned"
    /\ Get(result.context, "device_type", "") /= ""
    /\ Get(PlatformSteps, Get(result.context, "device_type", ""), <<>>) /= <<>>

\* the steps of the device the call has locked
LockedSteps == PlatformSteps[result.context["device_type"]]

\* the first call of a conversation over a flow none of whose steps asks a question,
\* made with a confirmation
LinearFlowStarted ==
    /\ Called
    /\ \A i \in DOMAIN TheFlow : TheFlow[i].options = <<>>
    /\ call_input.step_id = TheFlow[1].step_id
    /\ call_input.context = EmptyDict
    /\ Confirms[user_message]

\* after a device with k steps has been locked, k confirmations in a row reach the
\* completion outcome and no fewer do
LockedFlowFinishes ==
    JustLocked =>
        \A m \in { u \in Utterances : Confirms[u] } :
            LET run == ConfirmRun(FlowConfigs[flow_config], current_step_id, context, m,
                                  Len(LockedSteps))
            IN  /\ Completes(run[Len(LockedSteps)])
                /\ \A j \in 1..(Len(LockedSteps) - 1) : ~Completes(run[j])

\* a linear flow of n steps reaches the completion outcome within n confirmations:
\* with the first one, or with one of the n - 1 that follow it
LinearFlowFinishes ==
    LinearFlowStarted =>
        LET run == ConfirmRun(FlowConfigs[flow_config], current_step_id, context, user_message,
                              Len(TheFlow) - 1)
        IN  \/ Completes(result)
            \/ \E j \in 1..(Len(TheFlow) - 1) : Completes(run[j])

\* C30: a guided flow always finishes under repeated confirmation: after a device
\* with k >= 1 steps is locked, exactly k confirmation utterances (the returned
\* context threaded through) reach the completion outcome and no fewer do; a linear
\* flow of n steps reaches completion after at most n confirmations.
C30_FinishesUnderConfirmation == LockedFlowFinishes /\ LinearFlowFinishes

-----------------------------------------------------------------------------
(* flow_engine.py: convert_legacy_content_to_flow and what it calls *)

Texts(list) == [ n \in DOMAIN list |-> Text(list[n]) ]

\* s[:n]
Prefix(s, n) == The({ SubSeq(v, 1, IF Len(v) < n THEN Len(v) ELSE n) : v \in {s} })

\* list(dict.fromkeys(list)): the first occurrence of each element, in order
Dedupe(list) ==
    The({ LET firsts == SelectSeq([ k \in DOMAIN l |-> k ],
                                  LAMBDA k : \A j \in 1..(k - 1) : l[j] /= l[k])
          IN  [ n \in DOMAIN firsts |-> l[firsts[n]] ]
          : l \in {list} })

\* the text of each match, and of the group that closes head . tail in each match
MatchTexts(r, s) ==
    The({ The({ [ k \in DOMAIN ms |-> SubSeq(v, ms[k].start + 1, ms[k].end) ]
                : ms \in { re_finditer(r, v) } })
          : v \in {s} })

TailTexts(head, tail, s) ==
    The({ The({ [ k \in DOMAIN ms |->
                    SubSeq(v, TailStart(heads, tails, ms[k].start) + 1, ms[k].end) ]
                : ms \in { re_finditer(Then(<< head, tail >>), v) },
                  heads \in { The({ Ends(p, v) : p \in {head} }) },
                  tails \in { The({ Ends(p, v) : p \in {tail} }) } })
          : v \in {s} })

TriggerStopWords ==
    Words(<< "that", "this", "with", "from", "have", "your", "will", "can", "the", "and",
             "for", "are", "you" >>)

\* [a-z0-9]+
LowerWord == OneOrMore(OneOf(LowerSet \cup DigitSet))

TitlePhrases(title) ==
    The({ IF Len(t) > 2 THEN << t >> \o SelectSeq(split(t), LAMBDA w : Len(w) > 3) ELSE <<>>
          : t \in { lower(strip(title)) } })

ContentPhrases(content) ==
    SelectSeq(MatchTexts(LowerWord, lower(Prefix(content, 300))),
              LAMBDA w : 4 <= Len(w) /\ Len(w) <= 20 /\ w \notin TriggerStopWords)

_extract_trigger_phrases(title, content) ==
    Texts(Prefix(Dedupe(TitlePhrases(title) \o ContentPhrases(content)), 15))

\* (?:step\s*)?
StepWord == Optional(Then(<< LiteralI("step"), ZeroOrMore(Space) >>))

\* [\.\):\s]
StepSeparator == OneOf({".", ")", ":"} \cup SpaceChars)

\* (?:step\s*)?(\d+)[\.\):\s]+   and   \n\s*(\d+)[\.\)]\s*
StepHead == Then(<< StepWord, OneOrMore(Digit), OneOrMore(StepSeparator) >>)
LineNumberHead ==
    Then(<< Newline, ZeroOrMore(Space), OneOrMore(Digit), OneOf({".", ")"}), ZeroOrMore(Space) >>)

\* ([^\n]+(?:\n(?!next)[^\n]*)*): the rest of the line and the lines before the next number
StepBody(next) ==
    Then(<< OneOrMore(NotNewline),
            ZeroOrMore(Then(<< Newline, NotAhead(next), ZeroOrMore(NotNewline) >>)) >>)

StepTail ==
    StepBody(Then(<< ZeroOrMore(Space), StepWord, OneOrMore(Digit), StepSeparator >>))
LineNumberTail ==
    StepBody(Then(<< ZeroOrMore(Space), OneOrMore(Digit), OneOf({".", ")"}) >>))

\* \n\s*[\-\*]\s+|\n\n+
BulletOrBlankLine ==
    Either(<< Then(<< Newline, ZeroOrMore(Space), OneOf({"-", "*"}), OneOrMore(Space) >>),
              Then(<< Newline, OneOrMore(Newline) >>) >>)

Stripped400(texts) == [ k \in DOMAIN texts |-> Prefix(strip(texts[k]), 400) ]

NumberedStepsOf(content) ==
    IF strip(content) = <<>> THEN <<>>
    ELSE The({
        IF by_step /= <<>> THEN by_step
        ELSE The({
            IF by_line /= <<>> THEN by_line
            ELSE The({ IF parts /= <<>> THEN Prefix(parts, 15)
                       ELSE << Prefix(strip(content), 400) >>
                       : parts \in { Stripped400(SelectSeq(re_split(BulletOrBlankLine, content),
                                                         LAMBDA x : Len(strip(x)) > 10)) } })
            : by_line \in { Stripped400(TailTexts(LineNumberHead, LineNumberTail, content)) } })
        : by_step \in { Stripped400(TailTexts(StepHead, StepTail, content)) } })

_parse_numbered_steps(content) == The({ NumberedStepsOf(c) : c \in {content} })

\* \b{p}\b|{p}\s*:|{p}\s*\-
PlatformMention(p) ==
    Either(<< Then(<< WordEdge, Literal(p), WordEdge >>),
              Then(<< Literal(p), ZeroOrMore(Space), OneOf({":"}) >>),
              Then(<< Literal(p), ZeroOrMore(Space), OneOf({"-"}) >>) >>)

_has_multiple_platform_sections(content, platforms) ==
    \E content_lower \in { lower(content) } :
        Cardinality({ k \in DOMAIN platforms :
                        re_search(PlatformMention(platforms[k]), content_lower, 0).found }) >= 2

\* \b(go|tap|open|...|sign in|log in)\b
ActionVerbs ==
    Then(<< WordEdge,
            Either(<< Literal("go"), Literal("tap"), Literal("open"), Literal("select"),
                      Literal("click"), Literal("enter"), Literal("add"), Literal("press"),
                      Literal("choose"), Literal("navigate"), Literal("sign in"),
                      Literal("log in") >>),
            WordEdge >>)

OnYourDevice ==
    Then(<< Literal("on your"), OneOrMore(Space), Either(<< Literal("iphone"), Literal("android") >>) >>)

\* ^you can\s+(?:configure|set up|add)\s+[^.]+on your\s+(?:iphone|android)
YouCanIntro ==
    Then(<< TextStart, Literal("you can"), OneOrMore(Space),
            Either(<< Literal("configure"), Literal("set up"), Literal("add") >>),
            OneOrMore(Space), OneOrMore(NoneOf({"."})), OnYourDevice >>)

\* ^[^.]*(?:configure|set up)\s+[^.]*on your\s+(?:iphone|android)\s*\.?$
ConfigureIntro ==
    Then(<< TextStart, ZeroOrMore(NoneOf({"."})),
            Either(<< Literal("configure"), Literal("set up") >>),
            OneOrMore(Space), ZeroOrMore(NoneOf({"."})), OnYourDevice,
            ZeroOrMore(Space), Optional(OneOf({"."})), TextEnd >>)

IsActionable(step) ==
    \E t \in { strip(step) } :
        /\ Len(t) >= 12
        /\ ~re_match(YouCanIntro, lower(t)).found
        /\ ~(re_match(ConfigureIntro, lower(t)).found /\ ~re_search(ActionVerbs, lower(t), 0).found)

_filter_intro_sentences(steps) ==
    The({ IF actionable /= <<>> THEN actionable ELSE steps
          : actionable \in { SelectSeq(steps, IsActionable) } })

\* \s*[#\-]*\s*{p}\s*[:\-\s]*   (re.I)
HeaderWords(p) ==
    << ZeroOrMore(Space), ZeroOrMore(OneOf({"#", "-"})), ZeroOrMore(Space), LiteralI(p),
       ZeroOrMore(Space), ZeroOrMore(OneOf({":", "-"} \cup SpaceChars)) >>

\* (?:\n|^)\s*[#\-]*\s*{p}\s*[:\-\s]*\s*\n
SectionBreak(p) ==
    Then(<< Either(<< Newline, LineStart >>) >> \o HeaderWords(p) \o << ZeroOrMore(Space), Newline >>)

\* (?m)^\s*[#\-]*\s*{p}\s*[:\-\s]*(?:\n|$)
HeaderLine(p) ==
    Then(<< LineStart >> \o HeaderWords(p) \o << Either(<< Newline, LineEnd >>) >>)

OrAnd == Either(<< LiteralI("or"), LiteralI("and") >>)

\* \s*(?:on|for|or|and)\s+{op}[^\n.]*\.?
OtherPlatformPhrase(op) ==
    Then(<< ZeroOrMore(Space),
            Either(<< LiteralI("on"), LiteralI("for"), LiteralI("or"), LiteralI("and") >>),
            OneOrMore(Space), LiteralI(op), ZeroOrMore(NoneOf({"\n", "."})),
            Optional(OneOf({"."})) >>)

\* {a}\s*(?:or|and)\s+{b}
PlatformPair(a, b) ==
    Then(<< LiteralI(a), ZeroOrMore(Space), OrAnd, OneOrMore(Space), LiteralI(b) >>)

\* str.find(needle, from): the first position at or after from, -1 if there is none
find(hay, needle, from) ==
    \* positions count the characters before the occurrence
    The({ IF \A i \in from..(Len(h) - Len(n)) : SubSeq(h, i + 1, i + Len(n)) /= n THEN -1
          ELSE CHOOSE i \in from..(Len(h) - Len(n)) :
                   /\ SubSeq(h, i + 1, i + Len(n)) = n
                   /\ \A j \in from..(i - 1) : SubSeq(h, j + 1, j + Len(n)) /= n
          : h \in {hay}, n \in {needle} })

Min(a, b) == IF a <= b THEN a ELSE b

\* the smallest of the numbers of a set and a limit
Least(numbers, limit) ==
    IF numbers = {} THEN limit
    ELSE Min(limit, CHOOSE x \in numbers : \A y \in numbers : x <= y)

\* the part re.split leaves ahead of (first platform) or after (the others) the header
SplitSection(content_lower, p, i) ==
    The({ IF i = 1 THEN parts[1] ELSE IF Len(parts) >= 2 THEN parts[2] ELSE <<>>
          : parts \in { re_split(SectionBreak(p), content_lower) } })

\* the text between the header line matched by m and the next platform's header line
HeaderSection(content, others, m) ==
    The({ strip(SubSeq(content, m.end + 1,
                       m.end + Least({ stop.start : stop \in { h \in { re_search(HeaderLine(o), rest, 0)
                                                                       : o \in others } : h.found } },
                                     Len(content) - m.end)))
          : rest \in { SubSeq(content, m.end + 1, Len(content)) } })

\* the text from the first mention of the platform to the next mention of another
MentionSection(content, content_lower, p, others) ==
    The({ IF idx < 0 THEN content
          ELSE SubSeq(content, idx + Len(p) + 1,
                      Least({ at \in { find(content_lower, Chars(o), idx + Len(p)) : o \in others }
                              : at >= 0 },
                            Len(content)))
          : idx \in { find(content_lower, Chars(p), 0) } })

\* the section of a platform: the first of the three that is there
PlatformSectionOf(content, platform_headers, i) ==
    The({ The({ IF split_section /= <<>> THEN split_section
                ELSE The({ IF m.found THEN HeaderSection(c, others, m)
                           ELSE MentionSection(c, content_lower, p, others)
                           : m \in { re_search(HeaderLine(p), c, 0) } })
                : split_section \in { SplitSection(content_lower, p, i) } })
          : c \in {content}, content_lower \in { lower(content) }, p \in { platform_headers[i] },
            others \in { { platform_headers[k] : k \in DOMAIN platform_headers \ {i} } } })

\* the three re.sub calls for one other platform
CleanedOf(text, p, op) ==
    The({ The({ re_sub(PlatformPair(p, op), Chars(p), second)
                : second \in { re_sub(PlatformPair(op, p), Chars(p), first) } })
          : first \in { re_sub(OtherPlatformPhrase(op), <<" ">>, text) } })

RECURSIVE CleanedFrom(_, _, _, _)
\* the three re.sub calls, for each of the other platforms in turn
CleanedFrom(text, p, other_platforms, k) ==
    IF k > Len(other_platforms) THEN text
    ELSE The({ CleanedFrom(cleaned, p, other_platforms, k + 1)
               : cleaned \in { CleanedOf(text, p, other_platforms[k]) } })

CleanedStep(step, p, other_platforms) ==
    The({ IF strip(c) /= <<>> THEN strip(c) ELSE step
          : c \in { CleanedFrom(step, p, other_platforms, 1) } })

\* the steps of one platform: those of its section, cleaned of the other platforms,
\* or those of the whole content when its section has none
PlatformStepsOf(content, platform_headers, i) ==
    The({ IF steps /= <<>>
          THEN The({ Texts([ n \in DOMAIN steps |-> CleanedStep(steps[n], platform_headers[i], ops) ])
                     : ops \in { SelectSeq(platform_headers, LAMBDA x : x /= platform_headers[i]) } })
          ELSE Texts(_parse_numbered_steps(content))
          : steps \in { _filter_intro_sentences(_parse_numbered_steps(
                            PlatformSectionOf(content, platform_headers, i))) } })

_parse_content_by_platform(content, platform_headers) ==
    IF content = <<>> \/ platform_headers = <<>> THEN EmptyDict
    ELSE The({ [ p \in { hs[k] : k \in DOMAIN hs } |->
                   PlatformStepsOf(c, hs, CHOOSE k \in DOMAIN hs : hs[k] = p) ]
               : c \in {content}, hs \in {platform_headers} })

DEVICE_PLATFORMS == << "iphone", "android", "windows", "mac" >>

\* the flow of numbered steps: step_1 .. step_n, the last one ending the flow
StepsToFlow(steps) ==
    [ i \in DOMAIN steps |->
        Step("step_" \o str(i), Text(steps[i]), <<>>, "",
             IF i + 1 <= Len(steps) THEN "step_" \o str(i + 1) ELSE "end") ]

\* (title or content or "Please follow the instructions provided.")[:500]
FallbackText_TitleFirst(title, content) ==
    IF title /= "" THEN Text(Prefix(Chars(title), 500))
    ELSE IF content /= "" THEN Text(Prefix(Chars(content), 500))
    ELSE "Please follow the instructions provided."

\* (content or title or "Please follow the instructions provided.")[:500]
FallbackText(title, content) ==
    IF content /= "" THEN Text(Prefix(Chars(content), 500))
    ELSE IF title /= "" THEN Text(Prefix(Chars(title), 500))
    ELSE "Please follow the instructions provided."

\* lines 97-98: the platforms the content or the title names
PlatformHeaders(title, content) ==
    The({ SelectSeq(DEVICE_PLATFORMS, LAMBDA p : Contains(c, Chars(p)) \/ Contains(t, Chars(p)))
          : c \in { lower(Chars(content)) }, t \in { lower(Chars(title)) } })

\* lines 105-119: the device step and the steps of each platform
PlatformFlow(out, content, platform_headers) ==
    The({ Put([out EXCEPT !.flow = << DeviceStep(Prefix(platform_headers, 5)) >>],
              "_platform_steps",
              IF parsed /= EmptyDict THEN parsed
              ELSE The({ [ p \in { platform_headers[k] : k \in 1..Min(5, Len(platform_headers)) } |->
                             steps ]
                         : steps \in { Texts(_parse_numbered_steps(content)) } }))
          : parsed \in { _parse_content_by_platform(content, platform_headers) } })
    \* (platform_steps has a key per platform here, so line 144 always keeps it)

\* lines 121-135: the numbered steps in a line, or the one step that holds the text
LinearFlowOf(out, title, content) ==
    The({ [out EXCEPT !.flow =
               IF steps /= <<>> THEN StepsToFlow(steps)
               ELSE << Step("step_1", FallbackText(title, content), <<>>, "", "end") >>]
          : steps \in { _parse_numbered_steps(Chars(content)) } })

convert_legacy_content_to_flow(title, content, category) ==
    The({ IF platform_headers /= <<>> /\ _has_multiple_platform_sections(c, platform_headers)
          THEN PlatformFlow(out, c, platform_headers)
          ELSE LinearFlowOf(out, title, content)
          : c \in { Chars(content) },
            platform_headers \in { PlatformHeaders(title, content) },
            out \in { [title |-> title, category |-> category, type |-> "guided",
                       trigger_phrases |-> _extract_trigger_phrases(Chars(title), Chars(content)),
                       flow |-> <<>>] } })

-----------------------------------------------------------------------------
(* flow_engine.py: normalize_article_to_flow *)

\* article.get("id"): None is written "", the id of no article
NoId == ""

\* lines 491-495: a step without a next gets the step_id of the step after it (or that
\* step's place in the list as a name), the last one "end"
RepairedFlow(flow) ==
    [ i \in DOMAIN flow |->
        IF Get(flow[i], "next", "") /= "" THEN flow[i]
        ELSE IF i < Len(flow)
        THEN Put(flow[i], "next", Get(flow[i + 1], "step_id", "step_" \o str(i + 1)))
        ELSE Put(flow[i], "next", "end") ]

\* article.get("trigger_phrases") or _extract_trigger_phrases(title, content)
TriggerPhrasesOf(a) ==
    IF Get(a, "trigger_phrases", <<>>) /= <<>> THEN a.trigger_phrases
    ELSE _extract_trigger_phrases(Chars(Get(a, "title", "")), Chars(Get(a, "content", "")))

\* isinstance(flow, list) and len(flow) > 0
HasAuthoredFlow(a) == Get(a, "flow", <<>>) /= <<>>

\* article.get("guided_branches") or article.get("branches"): a dict keeps the order
\* its keys were added in, so a branch map is the list of its [name, steps] items
BranchesOf(a) ==
    IF Get(a, "guided_branches", <<>>) /= <<>> THEN a.guided_branches
    ELSE Get(a, "branches", <<>>)

\* lines 508-515: the device step over the names of the branches
BranchDeviceStep(branches) ==
    Step("device", "What device are you using?",
         [ i \in DOMAIN branches |->
             [value |-> branches[i].name,
              label |-> Text(titlecase(replace(Chars(branches[i].name), <<"_">>, <<" ">>)))] ],
         "device_type", "step_1")

\* the six keys both of the first two returns carry
Canonical(a, flow) ==
    [id |-> Get(a, "id", NoId), title |-> Get(a, "title", ""),
     category |-> Get(a, "category", ""), type |-> "guided",
     trigger_phrases |-> TriggerPhrasesOf(a), flow |-> flow]

\* the value normalize_article_to_flow(article) returns
normalize_article_to_flow(a) ==
    IF HasAuthoredFlow(a) THEN Canonical(a, RepairedFlow(a.flow))
    ELSE IF Len(BranchesOf(a)) >= 2
    THEN Put(Canonical(a, << BranchDeviceStep(BranchesOf(a)) >>), "_legacy_branches", BranchesOf(a))
    ELSE Put(convert_legacy_content_to_flow(Get(a, "title", ""), Get(a, "content", ""),
                                            Get(a, "category", "")),
             "id", Get(a, "id", NoId))

\* the article after the call: lines 492-495 assign to the step dicts of article["flow"]
ArticleAfter(a) ==
    IF HasAuthoredFlow(a) THEN [a EXCEPT !.flow = RepairedFlow(a.flow)] ELSE a

\* The articles of the model.  An authored article carries a flow[] of one or two
\* steps (the route stores the list of dicts it is sent, knowledge_base.py:32); a step
\* names itself "a" or "b", has a blank step_id or has none, and names its successor
\* "a", "b" or "end" or has no next.
MaxFlowSteps == 2

StepIds == {"a", "b"}

\* stands for a key the dict does not have
Unset == "<unset>"

AuthoredStep(id, nxt) ==
    The({ IF nxt = Unset THEN named ELSE Put(named, "next", nxt)
          : named \in { IF id = Unset THEN [message |-> "Do this."]
                        ELSE [message |-> "Do this.", step_id |-> id] } })

AuthoredSteps ==
    { AuthoredStep(id, nxt) : id \in StepIds \cup {"", Unset},
                              nxt \in StepIds \cup {"end", Unset} }

AuthoredFlows == UNION { [ 1..n -> AuthoredSteps ] : n \in 1..MaxFlowSteps }

AuthoredArticles ==
    { [id |-> "kb_vpn", title |-> "VPN Help", content |-> "Open the client.",
       category |-> "Network", type |-> "guided", flow |-> f] : f \in AuthoredFlows }

\* A legacy article has a title and a content, either of which may be empty, an
\* empty flow[] or none, and a branch map of no, one or two devices.
Titles == {"", "Email Setup", "Mail on iPhone"}

Contents ==
    {"", " ", "Restart the router.", "1. Open settings\n2. Click reset",
     "iPhone:\n1. Tap Mail\nAndroid:\n1. Open Gmail"}

BranchMaps ==
    { <<>>,
      << [name |-> "iphone", steps |-> << "Tap Mail" >>] >>,
      << [name |-> "iphone", steps |-> << "Tap Mail" >>],
         [name |-> "work_laptop", steps |-> << "Open Outlook", "Add the account" >>] >> }

LegacyArticle(title, content, branches, empty_flow) ==
    The({ The({ IF branches = <<>> THEN with_flow ELSE Put(with_flow, "guided_branches", branches)
                : with_flow \in { IF empty_flow THEN Put(base, "flow", <<>>) ELSE base } })
          : base \in { [id |-> "kb_mail", title |-> title, content |-> content,
                        category |-> "Email", type |-> "static"] } })

LegacyArticles ==
    { LegacyArticle(t, c, b, e) : t \in Titles, c \in Contents, b \in BranchMaps, e \in BOOLEAN }

Articles == AuthoredArticles \cup LegacyArticles

\* an article about to be normalized; no request and no conversation is under way
InitNormalize ==
    /\ article_doc \in Articles
    /\ normal_input = EmptyDict
    /\ normal_result = NoCall
    /\ renormal_result = NoCall
    /\ articles = <<>>
    /\ kw_source = ""
    /\ original_query = ""
    /\ exclude_article_ids = {}
    /\ selection = NoCall
    /\ first_call = NoCall
    /\ flow_config = "none"
    /\ current_step_id = ""
    /\ context = EmptyDict
    /\ user_message = ""
    /\ call_input = NoCall
    /\ result = NoCall
    /\ TicketsIdle

\* art = normalize_article_to_flow(article): the article is left as the call leaves it
Normalize ==
    /\ normal_result = NoCall
    /\ normal_input' = article_doc
    /\ normal_result' = [status |-> "returned", value |-> normalize_article_to_flow(article_doc)]
    /\ article_doc' = ArticleAfter(article_doc)
    /\ UNCHANGED renormal_result
    /\ UNCHANGED selectVars
    /\ UNCHANGED flowVars
    /\ UNCHANGED ticketVars

\* normalize_article_to_flow(art): the result of the first call is the argument, and
\* its flow is the list article["flow"] when the article was an authored one
Renormalize ==
    /\ normal_result /= NoCall
    /\ renormal_result = NoCall
    /\ renormal_result' =
           [status |-> "returned", value |-> normalize_article_to_flow(normal_result.value)]
    /\ normal_result' = [normal_result EXCEPT !.value = ArticleAfter(@)]
    /\ article_doc' = IF HasAuthoredFlow(article_doc)
                      THEN [article_doc EXCEPT !.flow = normal_result'.value.flow]
                      ELSE article_doc
    /\ UNCHANGED normal_input
    /\ UNCHANGED selectVars
    /\ UNCHANGED flowVars
    /\ UNCHANGED ticketVars

NextNormalize ==
    \/ Normalize
    \/ Renormalize

SpecNormalize == InitNormalize /\ [][NextNormalize]_vars

-----------------------------------------------------------------------------
(* Properties of normalize_article_to_flow *)

Normalized == normal_result /= NoCall

Renormalized == renormal_result /= NoCall

\* C11: normalize_article_to_flow is idempotent on its own output: normalizing the
\* result again yields the same result, the retained per-device data
\* (_legacy_branches, _platform_steps) included.
C11_NormalizeIsIdempotent ==
    Renormalized => renormal_result.value = normal_result.value

\* no two steps of a flow carry the same step_id
DistinctStepIds(flow) ==
    \A i, j \in DOMAIN flow :
        (i /= j /\ "step_id" \in DOMAIN flow[i] /\ "step_id" \in DOMAIN flow[j])
            => flow[i].step_id /= flow[j].step_id

\* the place of the step the next of the i-th step names (the first of that name, as
\* flow_advance looks it up), 0 when it names none
SuccessorOf(flow, i) ==
    IF \E j \in DOMAIN flow : Get(flow[j], "step_id", Unset) = Get(flow[i], "next", Unset)
    THEN CHOOSE j \in DOMAIN flow :
             /\ Get(flow[j], "step_id", Unset) = Get(flow[i], "next", Unset)
             /\ \A h \in 1..(j - 1) : Get(flow[h], "step_id", Unset) /= Get(flow[i], "next", Unset)
    ELSE 0

RECURSIVE WalkEnds(_, _, _)
\* following the next pointers from the i-th step leaves the flow within n hops
WalkEnds(flow, i, n) ==
    IF i = 0 THEN TRUE
    ELSE IF n = 0 THEN FALSE
    ELSE WalkEnds(flow, SuccessorOf(flow, i), n - 1)

\* a walk that is still inside the flow after as many hops as there are steps has
\* come by some step twice
NoCycle(flow) == \A i \in DOMAIN flow : WalkEnds(flow, i, Len(flow))

\* C12: every flow normalize_article_to_flow returns has pairwise distinct step_ids
\* and no cycle along the next pointers, whatever the authored flow[] of the article.
C12_DistinctIdsNoCycle ==
    Normalized => /\ DistinctStepIds(normal_result.value.flow)
                  /\ NoCycle(normal_result.value.flow)

\* C13: after normalize_article_to_flow on an article with a populated flow[] every
\* step has a next: a non-last step without one gets the step_id of the step after
\* it, the last step without one gets "end", and a next that was set is left as it was.
C13_EveryStepHasNext ==
    (Normalized /\ HasAuthoredFlow(normal_input)) =>
        \A i \in DOMAIN normal_input.flow :
            /\ Get(normal_result.value.flow[i], "next", "") /= ""
            /\ Get(normal_input.flow[i], "next", "") /= ""
                   => normal_result.value.flow[i].next = normal_input.flow[i].next
            /\ (Get(normal_input.flow[i], "next", "") = "" /\ i = Len(normal_input.flow))
                   => normal_result.value.flow[i].next = "end"
            /\ (/\ Get(normal_input.flow[i], "next", "") = ""
                /\ i < Len(normal_input.flow)
                /\ "step_id" \in DOMAIN normal_input.flow[i + 1])
                   => normal_result.value.flow[i].next = normal_input.flow[i + 1].step_id

\* an article none of whose parts yields a step: no flow[], fewer than two branches,
\* and a content that is empty or blank
NothingParses(a) ==
    /\ ~HasAuthoredFlow(a)
    /\ Len(BranchesOf(a)) < 2
    /\ strip(Chars(Get(a, "content", ""))) = <<>>

\* the single fallback step, holding a text
SingleStep(text) == << Step("step_1", text, <<>>, "", "end") >>

\* C14: normalization always degrades gracefully: for every article shape the result
\* has a flow of at least one step, and when nothing parses the flow is the single
\* step step_1 with next "end" that holds the first 500 characters of the content,
\* of the title when the content is empty, and a stock sentence when both are empty.
C14_DegradesGracefully ==
    Normalized =>
        /\ Len(normal_result.value.flow) >= 1
        /\ NothingParses(normal_input) =>
               normal_result.value.flow =
                   SingleStep(IF Get(normal_input, "content", "") /= ""
                              THEN Text(Prefix(Chars(normal_input.content), 500))
                              ELSE IF Get(normal_input, "title", "") /= ""
                              THEN Text(Prefix(Chars(normal_input.title), 500))
                              ELSE "Please follow the instructions provided.")

\* C14 as the specification words it: the single step holds the content or the title text
C14_FallbackHoldsContentOrTitle ==
    Normalized =>
        /\ Len(normal_result.value.flow) >= 1
        /\ NothingParses(normal_input) =>
               \/ normal_result.value.flow =
                      SingleStep(Text(Prefix(Chars(Get(normal_input, "content", "")), 500)))
               \/ normal_result.value.flow =
                      SingleStep(Text(Prefix(Chars(Get(normal_input, "title", "")), 500)))

\* an article with neither content nor title has been normalized to the single step
C14_Witness ==
    /\ Normalized
    /\ NothingParses(normal_input)
    /\ Get(normal_input, "content", "") = ""
    /\ Get(normal_input, "title", "") = ""
    /\ Len(normal_result.value.flow) = 1
    /\ normal_result.value.flow[1].next = "end"

\* C15: normalize_article_to_flow is pure with respect to its input: the article that
\* was passed in, the step records of its flow[] included, is after the call what it
\* was before the call.
C15_InputUnchanged ==
    Normalized => article_doc = normal_input

\* the next of the i-th step is "end" or the step_id of a step of the same flow
NamesAStep(flow, i) ==
    \/ Get(flow[i], "next", Unset) = "end"
    \/ \E j \in DOMAIN flow :
           /\ "step_id" \in DOMAIN flow[j]
           /\ Get(flow[i], "next", Unset) = flow[j].step_id

\* C27: in every result of normalize_article_to_flow the next of each step is "end"
\* or the step_id of a step present in the same flow; no successor dangles, that of
\* the device step built for branch-map and multi-device prose articles included.
C27_NoDanglingSuccessor ==
    Normalized =>
        \A i \in DOMAIN normal_result.value.flow : NamesAStep(normal_result.value.flow, i)

-----------------------------------------------------------------------------
(* flow_engine.py: the phrase predicates *)

RESOLUTION_PHRASES ==
    Words(<< "it's working", "it is working", "its working",
             "resolved", "fixed", "thank you", "thanks", "that worked",
             "all good", "all set", "got it", "working now", "solved",
             "yes it did", "that did it", "perfect", "yes it works",
             "it works", "working" >>)

ESCALATION_PHRASES ==
    Words(<< "still broken", "still not working", "doesn't work", "didn't work",
             "no luck", "not working", "escalate", "speak to someone", "human",
             "this didn't help", "this didnt help", "didnt help", "wrong", "not helpful" >>)

is_resolution_message(message) ==
    \E m \in {strip(lower(message))} : \E p \in RESOLUTION_PHRASES : Contains(m, p)

is_escalation_message(message) ==
    \E m \in {strip(lower(message))} : \E p \in ESCALATION_PHRASES : Contains(m, p)

\* The utterances the predicates are asked about.
Phrases ==
    { "It's working now", "Thanks, that fixed it", "Still not working", "It is not working",
      "This didn't help", "I want to speak to someone", "done", "ok", "hello", "",
      "Still broken", "No luck so far", "yes it works", "That is wrong" }

\* an utterance none of the predicates has been asked about yet
InitClassify ==
    /\ user_message \in Phrases
    /\ verdicts = EmptyDict
    /\ ticket = NoTicket
    /\ requests = <<>>
    /\ flow_config = "none"
    /\ current_step_id = ""
    /\ context = EmptyDict
    /\ call_input = NoCall
    /\ result = NoCall
    /\ articles = <<>>
    /\ kw_source = ""
    /\ original_query = ""
    /\ exclude_article_ids = {}
    /\ selection = NoCall
    /\ first_call = NoCall
    /\ article_doc = EmptyDict
    /\ normal_input = EmptyDict
    /\ normal_result = NoCall
    /\ renormal_result = NoCall

\* the caller asks one of the predicates about the utterance and keeps the answer
Asked(name, answer) ==
    /\ name \notin DOMAIN verdicts
    /\ verdicts' = Put(verdicts, name, answer)
    /\ UNCHANGED << ticket, requests >>
    /\ UNCHANGED selectVars
    /\ UNCHANGED flowVars
    /\ UNCHANGED normalizeVars

IsResolution == Asked("resolution", is_resolution_message(Chars(user_message)))

IsEscalation == Asked("escalation", is_escalation_message(Chars(user_message)))

IsConfirmation == Asked("confirmation", is_confirmation_message(Chars(user_message)))

NextClassify == IsResolution \/ IsEscalation \/ IsConfirmation

SpecClassify == InitClassify /\ [][NextClassify]_vars

-----------------------------------------------------------------------------
(* Properties of the phrase predicates *)

\* C25: no utterance is classified as both a resolution and an escalation:
\* is_resolution_message and is_escalation_message are never both true of one
\* message (a message containing "not working" is not a resolution).
C25_ResolutionExcludesEscalation ==
    ("resolution" \in DOMAIN verdicts /\ "escalation" \in DOMAIN verdicts) =>
        ~(verdicts["resolution"] /\ verdicts["escalation"])

-----------------------------------------------------------------------------
(* routes/tickets.py: the ticket document and the routes that write it.  The  *)
(* document keeps the fields the routes decide on; timestamps, names,         *)
(* summaries and notes are left out.  None is written "".                     *)

INTRO_MSG == "I'll help you with that right away."

CONFIRMATION_PROMPT ==
    "Please let me know if this resolved your issue.\n\nReply YES to close the ticket,\nor NO to escalate to support."

RESOLVED_REPLY ==
    "Great! I'm glad that resolved your issue.\n\nIf you need anything else, feel free to open a new ticket."

ESCALATE_REPLY ==
    "I wasn't able to fully resolve this for you." \o "\n\n" \o
    "I've escalated your ticket to our support team. They will respond shortly."

NO_KB_FOUND_MSG == ESCALATE_REPLY

SUPPORT_CONFIRMATION_MSG == "Please confirm if this resolves your issue."

DISSATISFACTION_PHRASES ==
    Words(<< "wrong", "incorrect", "not helpful", "not what i asked", "that is not what i asked",
             "not right", "doesn't help", "not relevant", "not the right", "bad answer",
             "useless", "unhelpful", "that's wrong", "this is wrong", "incorrect answer",
             "this didn't work", "this didnt work", "didn't work", "didnt work",
             "still not working", "issue unresolved", "still unresolved", "doesn't resolve",
             "didn't resolve" >>)

_is_dissatisfaction(message) ==
    \E m \in {strip(lower(message))} : \E p \in DISSATISFACTION_PHRASES : Contains(m, p)

\* the sender and the text of a message; the other fields of the payload follow from them
_message_payload(sender, message) == [sender |-> sender, message |-> message]

\* any(p in msg_lower for p in phrases)
AnyIn(msg_lower, phrases) == \E p \in Words(phrases) : Contains(msg_lower, p)

\* message.strip().lower()
StripLower(message) == lower(strip(Chars(message)))

\* line 1256: the user confirms the resolution an admin proposed
ConfirmsResolution(message) ==
    \E msg_lower \in {StripLower(message)} :
        \/ msg_lower \in Words(<< "yes", "y", "yeah", "sure" >>)
        \/ AnyIn(msg_lower, << "working", "resolved", "fixed", "all good", "thank" >>)

\* line 1264: the user denies it
DeniesResolution(message) ==
    \/ StripLower(message) \in Words(<< "no", "n" >>)
    \/ _is_dissatisfaction(Chars(message))

\* line 1286: the user says the article helped
AcceptsArticle(message) ==
    \E msg_lower \in {StripLower(message)} :
        \/ msg_lower \in Words(<< "yes", "y", "yeah", "sure" >>)
        \/ AnyIn(msg_lower, << "solved", "fixed", "resolved", "it worked", "working", "all good",
                               "thank you", "thanks" >>)

\* line 1299: the user says it did not
RejectsArticle(message) ==
    \/ StripLower(message) \in Words(<< "no", "n" >>)
    \/ _is_dissatisfaction(Chars(message))
    \/ AnyIn(StripLower(message), << "not working", "still broken", "didn't help", "escalate" >>)

\* The texts users send on a ticket, and the text of an admin.
Replies ==
    { "YES", "no", "Still not working", "didn't work", "escalate", "hello" }

AdminTexts == { "Please restart the laptop." }

\* the four tests, tabulated over the texts of the model
ReplyTests ==
    [ m \in Replies \cup AdminTexts |->
        [confirms |-> ConfirmsResolution(m), denies |-> DeniesResolution(m),
         accepts |-> AcceptsArticle(m), rejects |-> RejectsArticle(m)] ]

\* the test left out: no ticket is taken to be in human mode
InHumanMode_Never(t) == FALSE

\* line 1228: if ticket_data.get("mode") == "human"
InHumanMode(t) == t.mode = "human"

\* lines 1274-1279: the AI still holds the ticket
InAiMode(t) == (t.mode = "ai" \/ t.ai_mode = "article") /\ ~t.resolved /\ ~t.escalated

\* The fields add_message_to_ticket passes to ticket_ref.update, given the ticket
\* it read: lines 1202-1351.
add_message_to_ticket(t, sender, message) ==
    LET messages == Append(t.messages, _message_payload(sender, message))
        tests == ReplyTests[message]
    IN  IF sender = "admin" /\ t.status = "escalated"
        THEN [messages |-> messages, status |-> "in_progress"]
        ELSE IF InHumanMode(t) THEN [messages |-> messages]
        ELSE IF t.status = "closed" THEN [messages |-> messages]
        ELSE IF sender = "user" /\ t.status = "awaiting_confirmation" /\ tests.confirms
        THEN [messages |-> messages, status |-> "closed", resolved |-> TRUE]
        ELSE IF sender = "user" /\ t.status = "awaiting_confirmation" /\ tests.denies
        THEN [messages |-> messages, status |-> "in_progress", mode |-> "human",
              resolved |-> FALSE]
        ELSE IF sender = "user" /\ InAiMode(t) /\ tests.accepts
        THEN [messages |-> Append(messages, _message_payload("ai", RESOLVED_REPLY)),
              status |-> "closed", mode |-> "ai", resolved |-> TRUE, escalated |-> FALSE]
        ELSE IF sender = "user" /\ InAiMode(t) /\ tests.rejects
        THEN [messages |-> Append(messages, _message_payload("ai", ESCALATE_REPLY)),
              status |-> "escalated", mode |-> "human", escalated |-> TRUE,
              ai_mode |-> "ai_free"]
        ELSE IF sender = "user" /\ t.ai_mode = "guided" /\ ~t.resolved
        THEN [messages |-> Append(messages, _message_payload("ai", ESCALATE_REPLY)),
              mode |-> "human", ai_mode |-> "ai_free", status |-> "escalated",
              escalated |-> TRUE]
        ELSE [messages |-> messages]

\* ticket_ref.update(fields): the fields named are replaced, the others kept
Updated(doc, fields) == fields @@ doc

allowed_statuses ==
    { "open", "pending", "in_progress", "resolved", "escalated", "closed", "ai_responded",
      "awaiting_confirmation", "reopened", "auto_resolved" }

\* the flag follows the new status alone
CurrentEscalated_FromStatus(t, new_status) == new_status = "escalated"

\* lines 1438-1440: the flag the ticket has, raised when the new status is escalated
CurrentEscalated(t, new_status) == t.escalated \/ new_status = "escalated"

\* The fields update_ticket_status passes to ticket_ref.update: lines 1438-1462.
update_ticket_status(t, new_status) ==
    IF new_status = "resolved" /\ t.mode = "human"
    THEN [status |-> "awaiting_confirmation",
          escalated |-> CurrentEscalated(t, new_status),
          messages |-> Append(t.messages, _message_payload("admin", SUPPORT_CONFIRMATION_MSG))]
    ELSE [status |-> new_status, escalated |-> CurrentEscalated(t, new_status)]

\* the test without its second half: any article the selection returns is used
NotFound_AnyScore(sel) == sel.article = NoArticle

\* line 586: if not best_article or score < MIN_SCORE_THRESHOLD
NotFound(sel) == sel.article = NoArticle \/ sel.score < MIN_SCORE_THRESHOLD

\* lines 617-619: the article text sent as the second message
full_article_content(a) ==
    LET text == Text(strip(Chars(IF a.content /= "" THEN a.content ELSE a.title)))
    IN  IF text /= "" THEN text
        ELSE IF a.title /= "" THEN a.title ELSE "No content available."

\* lines 596-611, 645-661 and 670-686: the ticket of a request nothing was found for
EscalatedTicket(message) ==
    [message |-> message, status |-> "escalated", escalated |-> TRUE, mode |-> "human",
     ai_mode |-> "ai_free", resolved |-> FALSE, returned_article_id |-> NoId,
     messages |-> << _message_payload("user", message), _message_payload("ai", NO_KB_FOUND_MSG) >>,
     assigned_to |-> ""]

\* lines 624-640: the ticket of a request the article answers
AnsweredTicket(message, a) ==
    [message |-> message, status |-> "ai_responded", escalated |-> FALSE, mode |-> "ai",
     ai_mode |-> "article", resolved |-> FALSE, returned_article_id |-> a.id,
     messages |-> << _message_payload("user", message), _message_payload("ai", INTRO_MSG),
                     _message_payload("ai", full_article_content(a)),
                     _message_payload("ai", CONFIRMATION_PROMPT) >>,
     assigned_to |-> ""]

\* The document create_ticket stores, given what the selection came to: lines 581-721.
create_ticket(message, sel) ==
    IF sel.status = "raised" THEN EscalatedTicket(message)
    ELSE IF NotFound(sel) THEN EscalatedTicket(message)
    ELSE AnsweredTicket(message, KnowledgeBase[sel.article])

-----------------------------------------------------------------------------
(* Requests on one ticket, each handled before the next arrives *)

\* The knowledge bases of the organizations: every article, or one article.
KnowledgeBases == { << "pw", "em", "vpn", "prn" >>, << "pw" >> }

\* The texts tickets are opened with.
TicketTexts == { "help", "vpn" }

\* The statuses admins set; "done" is not an allowed status.
StatusUpdates ==
    { "in_progress", "resolved", "escalated", "closed", "awaiting_confirmation", "done" }

\* the support admin tickets are assigned to; "" is assigned to nobody
Assignees == { "", "agent" }

MaxRequests == 3

\* the messages appended by users and admins since the ticket was opened
Handled(t) ==
    Cardinality({ i \in DOMAIN t.messages : t.messages[i].sender /= "ai" }) - 1

\* the user's request; nothing is stored yet
InitTicket ==
    /\ ticket = NoTicket
    /\ requests = <<>>
    /\ verdicts = EmptyDict
    /\ articles = <<>>
    /\ kw_source = ""
    /\ original_query = ""
    /\ exclude_article_ids = {}
    /\ selection = NoCall
    /\ first_call = NoCall
    /\ flow_config = "none"
    /\ current_step_id = ""
    /\ context = EmptyDict
    /\ user_message = ""
    /\ call_input = NoCall
    /\ result = NoCall
    /\ article_doc = EmptyDict
    /\ normal_input = EmptyDict
    /\ normal_result = NoCall
    /\ renormal_result = NoCall

\* POST /tickets: the selection over the organization's articles (or the exception it
\* ends in) and the document stored
CreateTicket(kb, message, raises) ==
    /\ ticket = NoTicket
    /\ articles' = kb
    /\ kw_source' = message
    /\ original_query' = message
    /\ exclude_article_ids' = {}
    /\ selection' = IF raises THEN [status |-> "raised"]
                    ELSE [status |-> "returned"] @@ select_best_article(kb, message, {}, message)
    /\ ticket' = create_ticket(message, selection')
    /\ UNCHANGED << first_call, requests, verdicts >>
    /\ UNCHANGED flowVars
    /\ UNCHANGED normalizeVars

\* lines 1202-1211 and 1434-1435: a support admin acts on the tickets assigned to them
MayAct(role, t) == role = "support_admin" => t.assigned_to = "agent"

\* POST /tickets/{id}/messages: read the ticket, append, update
AddMessage(role, message) ==
    /\ ticket /= NoTicket
    /\ MayAct(role, ticket)
    /\ Handled(ticket) < MaxRequests
    /\ ticket' = Updated(ticket,
                         add_message_to_ticket(ticket, IF role = "user" THEN "user" ELSE "admin",
                                               message))
    /\ UNCHANGED << requests, verdicts >>
    /\ UNCHANGED selectVars
    /\ UNCHANGED flowVars
    /\ UNCHANGED normalizeVars

\* PUT /tickets/{id}/status, by an admin
UpdateStatus(role, new_status) ==
    /\ ticket /= NoTicket
    /\ new_status \in allowed_statuses
    /\ MayAct(role, ticket)
    /\ (new_status = "resolved" /\ ticket.mode = "human") => Handled(ticket) < MaxRequests
    /\ ticket' = Updated(ticket, update_ticket_status(ticket, new_status))
    /\ UNCHANGED << requests, verdicts >>
    /\ UNCHANGED selectVars
    /\ UNCHANGED flowVars
    /\ UNCHANGED normalizeVars

\* PUT /tickets/{id}/assign, by a super admin
Assign(assigned_to) ==
    /\ ticket /= NoTicket
    /\ ticket' = Updated(ticket, [assigned_to |-> assigned_to])
    /\ UNCHANGED << requests, verdicts >>
    /\ UNCHANGED selectVars
    /\ UNCHANGED flowVars
    /\ UNCHANGED normalizeVars

AdminRoles == { "super_admin", "support_admin" }

NextTicket ==
    \/ \E kb \in KnowledgeBases, message \in TicketTexts, raises \in BOOLEAN :
           CreateTicket(kb, message, raises)
    \/ \E message \in Replies : AddMessage("user", message)
    \/ \E role \in AdminRoles, message \in AdminTexts : AddMessage(role, message)
    \/ \E role \in AdminRoles, new_status \in StatusUpdates : UpdateStatus(role, new_status)
    \/ \E assigned_to \in Assignees : Assign(assigned_to)

SpecTicket == InitTicket /\ [][NextTicket]_vars

-----------------------------------------------------------------------------
(* Requests on one ticket that overlap: add_message_to_ticket reads the       *)
(* document (line 1194), builds the update from what it read and writes it    *)
(* (ticket_ref.update); the document is in Firestore, shared by every worker  *)
(* that serves the route, and nothing ties the read to the write.             *)

MaxConcurrent == 2

\* the documents create_ticket stores for the knowledge bases and texts of the model
StoredTickets ==
    { create_ticket(message,
                    [status |-> "returned"] @@ select_best_article(kb, message, {}, message))
      : kb \in KnowledgeBases, message \in TicketTexts }

\* a stored ticket; no request on it is under way
InitRace ==
    /\ ticket \in StoredTickets
    /\ requests = <<>>
    /\ verdicts = EmptyDict
    /\ articles = <<>>
    /\ kw_source = ""
    /\ original_query = ""
    /\ exclude_article_ids = {}
    /\ selection = NoCall
    /\ first_call = NoCall
    /\ flow_config = "none"
    /\ current_step_id = ""
    /\ context = EmptyDict
    /\ user_message = ""
    /\ call_input = NoCall
    /\ result = NoCall
    /\ article_doc = EmptyDict
    /\ normal_input = EmptyDict
    /\ normal_result = NoCall
    /\ renormal_result = NoCall

\* lines 1190-1195: a request arrives and reads the ticket
ReadTicket(sender, message) ==
    /\ Len(requests) < MaxConcurrent
    /\ requests' = Append(requests, [sender |-> sender, message |-> message,
                                     ticket_data |-> ticket, written |-> FALSE])
    /\ UNCHANGED << ticket, verdicts >>
    /\ UNCHANGED selectVars
    /\ UNCHANGED flowVars
    /\ UNCHANGED normalizeVars

\* lines 1202-1351: the request appends to the messages it read and updates the document
WriteTicket(i) ==
    /\ ~requests[i].written
    /\ ticket' = Updated(ticket,
                         add_message_to_ticket(requests[i].ticket_data, requests[i].sender,
                                               requests[i].message))
    /\ requests' = [requests EXCEPT ![i].written = TRUE]
    /\ UNCHANGED verdicts
    /\ UNCHANGED selectVars
    /\ UNCHANGED flowVars
    /\ UNCHANGED normalizeVars

NextRace ==
    \/ \E message \in Replies : ReadTicket("user", message)
    \/ \E message \in AdminTexts : ReadTicket("admin", message)
    \/ \E i \in DOMAIN requests : WriteTicket(i)

SpecRace == InitRace /\ [][NextRace]_vars

-----------------------------------------------------------------------------
(* Properties of the ticket routes *)

\* a ticket is stored
Stored == ticket /= NoTicket

\* C28: the escalated flag is sticky: once escalated=True has been stored, no
\* sequence of add_message_to_ticket, update_ticket_status and assign_ticket calls
\* sets it back to False.
C28_EscalatedIsSticky ==
    [][(Stored /\ ticket.escalated) => ticket'.escalated]_vars

\* an escalated ticket a user has written on, that was assigned to the support admin
\* and that an admin has marked resolved: it is still escalated
C28_Witness ==
    /\ Stored
    /\ ticket.escalated
    /\ ticket.assigned_to = "agent"
    /\ ticket.status = "awaiting_confirmation"
    /\ \E i \in 3..Len(ticket.messages) : ticket.messages[i].sender = "user"
    /\ ticket.messages[Len(ticket.messages)] = _message_payload("admin", SUPPORT_CONFIRMATION_MSG)

\* the messages of a ticket the AI wrote
AiMessages(t) == { i \in DOMAIN t.messages : t.messages[i].sender = "ai" }

\* C23: once the mode of a ticket is "human", no later add_message_to_ticket call
\* appends an AI-authored message to it, and no operation sets the mode back to "ai".
C23_HumanModeSilencesAi ==
    [][(Stored /\ ticket.mode = "human") =>
           /\ ticket'.mode = "human"
           /\ AiMessages(ticket') = AiMessages(ticket)]_vars

\* the user rejected the article, the ticket went to human mode with the AI's
\* escalation reply, and the user's next message was stored without an answer
C23_Witness ==
    /\ Stored
    /\ ticket.mode = "human"
    /\ Len(ticket.messages) = 7
    /\ ticket.messages[5].sender = "user"
    /\ ticket.messages[6] = _message_payload("ai", ESCALATE_REPLY)
    /\ ticket.messages[7] = _message_payload("user", "YES")

\* the step stores the text m as the next message of the ticket, sent by its user
UserSent(m) ==
    /\ Stored
    /\ Len(ticket'.messages) > Len(ticket.messages)
    /\ ticket'.messages[Len(ticket.messages) + 1] = _message_payload("user", m)

\* an admin has marked the human-mode ticket resolved: it awaits the user's word
AwaitsConfirmation ==
    /\ Stored
    /\ ticket.status = "awaiting_confirmation"
    /\ ticket.mode = "human"
    /\ ticket.messages[Len(ticket.messages)] = _message_payload("admin", SUPPORT_CONFIRMATION_MSG)

\* C21: when a ticket is in status awaiting_confirmation (reached by an admin marking
\* a human-mode ticket resolved) and its user sends YES (or a resolved/fixed/working
\* phrase), add_message_to_ticket sets the ticket to status closed with resolved=True;
\* when the user sends NO it sets status in_progress with resolved=False.
C21_ConfirmationClosesOrReopens ==
    [][\A m \in Replies :
           (AwaitsConfirmation /\ UserSent(m)) =>
               /\ ReplyTests[m].confirms =>
                      ticket'.status = "closed" /\ ticket'.resolved
               /\ StripLower(m) \in Words(<< "no", "n" >>) =>
                      ticket'.status = "in_progress" /\ ~ticket'.resolved]_vars

\* the AI holds the ticket: mode ai, not resolved, not escalated
HeldByAi == Stored /\ ticket.mode = "ai" /\ ~ticket.resolved /\ ~ticket.escalated

\* C22: in AI mode (ticket not resolved and not escalated), a user reply of NO or
\* any reply expressing that the article did not help ("not working", "still not
\* working", "didn't work", "escalate", a dissatisfaction phrase) escalates the
\* ticket (status escalated, mode human, escalated=True) and never closes it as resolved.
C22_RejectionEscalates ==
    [][\A m \in Replies :
           (HeldByAi /\ ticket.status = "ai_responded" /\ UserSent(m) /\ ReplyTests[m].rejects) =>
               /\ ticket'.status = "escalated"
               /\ ticket'.mode = "human"
               /\ ticket'.escalated
               /\ ~ticket'.resolved]_vars

\* the selection create_ticket made returned an article that scores at least the threshold
ArticleFound(sel) ==
    /\ sel.status = "returned"
    /\ sel.article /= NoArticle
    /\ sel.score >= MIN_SCORE_THRESHOLD

\* C24: create_ticket stores a ticket with status ai_responded (mode ai,
\* returned_article_id set) only when select_best_article returned an article with
\* score >= MIN_SCORE_THRESHOLD; in every other case, a refusal gate firing or an
\* exception during selection included, the ticket is stored with status escalated,
\* escalated=True, mode human and no returned article.
C24_AnswersOnlyAboveThreshold ==
    [][(ticket = NoTicket /\ ticket' /= NoTicket) =>
           /\ ticket'.status = "ai_responded" =>
                  /\ ArticleFound(selection')
                  /\ selection' = [status |-> "returned"] @@
                                  select_best_article(articles', kw_source', {}, original_query')
                  /\ ticket'.mode = "ai"
                  /\ ticket'.returned_article_id = KnowledgeBase[selection'.article].id
                  /\ ticket'.returned_article_id /= NoId
           /\ ~ArticleFound(selection') =>
                  /\ ticket'.status = "escalated"
                  /\ ticket'.escalated
                  /\ ticket'.mode = "human"
                  /\ ticket'.returned_article_id = NoId]_vars

\* the selection returned an article that scores below the threshold, and the ticket
\* was stored escalated
C24_Witness ==
    /\ Stored
    /\ selection.status = "returned"
    /\ selection.article /= NoArticle
    /\ selection.score < MIN_SCORE_THRESHOLD
    /\ ticket.messages = << _message_payload("user", ticket.message),
                            _message_payload("ai", NO_KB_FOUND_MSG) >>
    /\ ticket.status = "escalated"
    /\ ticket.returned_article_id = NoId

\* C29: when two add_message_to_ticket requests on the same ticket interleave (each
\* reads the ticket, appends its message and writes the messages list back), both
\* messages are present in the stored messages list afterwards; no message is lost.
C29_NoMessageLost ==
    (\A i \in DOMAIN requests : requests[i].written) =>
        \A i \in DOMAIN requests :
            \E j \in DOMAIN ticket.messages :
                ticket.messages[j] = _message_payload(requests[i].sender, requests[i].message)

====
